---- MODULE Spec2Model ----
(***************************************************************************)
(* MeFolder: the hierarchical entity store (folders, files, tags and the   *)
(* tag-assignment relations) with its repositories and services.           *)
(*                                                                         *)
(* Representation.  A string is a sequence of one-character strings, so    *)
(* that trim() and the '/'-joined paths are computed, not assumed.  An id  *)
(* (folder_<ts>_<rand>, ...) is one opaque token "f1", "x1", "t1"; inside  *)
(* a path it is a single element.  Timestamps (created_at, updated_at,     *)
(* last_used_at) and the display columns (colour, icon, view settings,     *)
(* visibility, description) are left out: no operation reads them to       *)
(* decide anything.                                                        *)
(***************************************************************************)
EXTENDS Integers, Sequences, FiniteSets, TLC

VARIABLES
    folders,     \* table folders:     id -> row
    files,       \* table files:       id -> row
    tags,        \* table tags:        id -> row
    fileTags,    \* table file_tags:   set of <<file_id, tag_id>>
    folderTags,  \* table folder_tags: set of <<folder_id, tag_id>>
    last,        \* the last completed call: operation, arguments, outcome
    mem,         \* the model objects in memory and the arrays they point to
    tasks        \* the service calls in flight: position and values read

vars == <<folders, files, tags, fileTags, folderTags, last, mem, tasks>>

(***************************************************************************)
(* Bounds of the model.                                                    *)
(***************************************************************************)
MaxFolders == 3
MaxFiles == 1
MaxTags == 2

Null == "null"

FolderId(i) == "f" \o ToString(i)
FileId(i) == "x" \o ToString(i)
TagId(i) == "t" \o ToString(i)

Max(a, b) == IF a >= b THEN a ELSE b

EmptyTable == [id \in {} |-> Null]

\* One row added to (or replaced in) a table.
Put(table, id, row) ==
    [k \in DOMAIN table \cup {id} |-> IF k = id THEN row ELSE table[k]]

(***************************************************************************)
(* Strings.                                                                *)
(***************************************************************************)
RECURSIVE TrimLeft(_)
TrimLeft(s) ==
    IF s # <<>> /\ Head(s) = " " THEN TrimLeft(Tail(s)) ELSE s

RECURSIVE TrimRight(_)
TrimRight(s) ==
    IF s # <<>> /\ s[Len(s)] = " " THEN TrimRight(SubSeq(s, 1, Len(s) - 1)) ELSE s

\* String.prototype.trim
Trim(s) == TrimRight(TrimLeft(s))

\* `${a}/${b}`
Slash(a, b) == a \o <<"/">> \o b

\* The names the callers pass: "a", " a" (leading blank) and "b".
NameA == <<"a">>
NameSpA == <<" ", "a">>
NameB == <<"b">>
RawNames == {NameA, NameSpA, NameB}

(***************************************************************************)
(* The store as one value, for the operations that are functions of it.    *)
(***************************************************************************)
DB ==
    [folders |-> folders, files |-> files, tags |-> tags,
     fileTags |-> fileTags, folderTags |-> folderTags]

\* The tables written by a statement, or by a call that runs alone.
SetStore(d) ==
    /\ folders' = d.folders
    /\ files' = d.files
    /\ tags' = d.tags
    /\ fileTags' = d.fileTags
    /\ folderTags' = d.folderTags

\* A call that runs from start to end with no other call in flight.
SetDB(d) ==
    /\ SetStore(d)
    /\ UNCHANGED <<mem, tasks>>

SetDBInit ==
    /\ folders = EmptyTable
    /\ files = EmptyTable
    /\ tags = EmptyTable
    /\ fileTags = {}
    /\ folderTags = {}

EmptyDB ==
    [folders |-> EmptyTable, files |-> EmptyTable, tags |-> EmptyTable,
     fileTags |-> {}, folderTags |-> {}]

\* The record of a completed call.  pre is what an assignment call found
\* before it ran: every tag's usage_count and the tags its subject held.
CallWithPre(op, id, to, str, flag, err, pre) ==
    [op |-> op, id |-> id, to |-> to, str |-> str, flag |-> flag, err |-> err,
     pre |-> pre]

Call(op, id, to, str, flag, err) == CallWithPre(op, id, to, str, flag, err, <<>>)

NoCall == Call("none", Null, Null, <<>>, FALSE, "ok")

\* No model object built yet, no call in flight.
NoModels == [models |-> <<>>, arrays |-> <<>>]
NoTasks == <<>>

(***************************************************************************)
(* Triggers on file_tags / folder_tags.                                    *)
(***************************************************************************)
TrgTagInsertNoIncrement(tg, t) == tg

\* trg_file_tag_insert, trg_folder_tag_insert: usage_count = usage_count + 1
TrgTagInsert(tg, t) ==
    [tg EXCEPT ![t].usageCount = @ + 1]

TrgTagDeleteNoDecrement(tg, t) == tg

\* trg_file_tag_delete, trg_folder_tag_delete: usage_count = MAX(usage_count - 1, 0)
TrgTagDelete(tg, t) ==
    [tg EXCEPT ![t].usageCount = Max(@ - 1, 0)]

\* DELETE of a set of relation rows of one subject: the delete trigger runs
\* once for each row, and a subject holds a tag at most once.
TrgTagDeleteAll(tg, ts) ==
    [t \in DOMAIN tg |-> IF t \in ts THEN TrgTagDelete(tg, t)[t] ELSE tg[t]]

(***************************************************************************)
(* Statements and Database.transaction.                                    *)
(***************************************************************************)
PathTaken(table, path) == \E id \in DOMAIN table : table[id].path = path

\* One statement run against the store: [ok, db].  A constraint of the
\* schema that fails (PRIMARY KEY, UNIQUE, REFERENCES with foreign_keys ON)
\* makes the statement fail and write nothing.
RunStatement(d, q) ==
    CASE q.k = "insFolder" ->
           IF \/ q.id \in DOMAIN d.folders
              \/ PathTaken(d.folders, q.row.path)
              \/ (q.row.parentId # Null /\ q.row.parentId \notin DOMAIN d.folders)
           THEN [ok |-> FALSE, db |-> d]
           ELSE [ok |-> TRUE, db |-> [d EXCEPT !.folders = Put(@, q.id, q.row)]]
      [] q.k = "insFile" ->
           IF \/ q.id \in DOMAIN d.files
              \/ PathTaken(d.files, q.row.path)
              \/ (q.row.folderId # Null /\ q.row.folderId \notin DOMAIN d.folders)
           THEN [ok |-> FALSE, db |-> d]
           ELSE [ok |-> TRUE, db |-> [d EXCEPT !.files = Put(@, q.id, q.row)]]
      [] q.k = "insFileTag" ->
           IF \/ q.s \notin DOMAIN d.files
              \/ q.t \notin DOMAIN d.tags
              \/ <<q.s, q.t>> \in d.fileTags
           THEN [ok |-> FALSE, db |-> d]
           ELSE [ok |-> TRUE,
                 db |-> [d EXCEPT !.fileTags = @ \cup {<<q.s, q.t>>},
                                  !.tags = TrgTagInsert(@, q.t)]]
      [] q.k = "insFolderTag" ->
           IF \/ q.s \notin DOMAIN d.folders
              \/ q.t \notin DOMAIN d.tags
              \/ <<q.s, q.t>> \in d.folderTags
           THEN [ok |-> FALSE, db |-> d]
           ELSE [ok |-> TRUE,
                 db |-> [d EXCEPT !.folderTags = @ \cup {<<q.s, q.t>>},
                                  !.tags = TrgTagInsert(@, q.t)]]
      [] q.k = "delFileTags" ->
           LET gone == {r \in d.fileTags : r[1] = q.s /\ r[2] \in q.ts}
           IN  [ok |-> TRUE,
                db |-> [d EXCEPT !.fileTags = @ \ gone,
                                 !.tags = TrgTagDeleteAll(@, {r[2] : r \in gone})]]
      [] q.k = "delFolderTags" ->
           LET gone == {r \in d.folderTags : r[1] = q.s /\ r[2] \in q.ts}
           IN  [ok |-> TRUE,
                db |-> [d EXCEPT !.folderTags = @ \ gone,
                                 !.tags = TrgTagDeleteAll(@, {r[2] : r \in gone})]]
      [] q.k = "insTag" ->
           IF \/ q.id \in DOMAIN d.tags
              \/ \E t \in DOMAIN d.tags : d.tags[t].name = q.row.name
              \/ (q.row.parentId # Null /\ q.row.parentId \notin DOMAIN d.tags \cup {q.id})
           THEN [ok |-> FALSE, db |-> d]
           ELSE [ok |-> TRUE, db |-> [d EXCEPT !.tags = Put(@, q.id, q.row)]]
      [] q.k = "setTagParent" ->
           IF q.id \notin DOMAIN d.tags THEN [ok |-> TRUE, db |-> d]
           ELSE IF q.p # Null /\ q.p \notin DOMAIN d.tags
           THEN [ok |-> FALSE, db |-> d]
           ELSE [ok |-> TRUE, db |-> [d EXCEPT !.tags[q.id].parentId = q.p]]

RECURSIVE RunAll(_, _)
RunAll(d, queries) ==
    IF queries = <<>> THEN [ok |-> TRUE, db |-> d]
    ELSE LET r == RunStatement(d, Head(queries))
         IN  IF r.ok THEN RunAll(r.db, Tail(queries)) ELSE r

\* The statements run in order with no rollback: what the first failing
\* statement leaves behind stays written.
TransactionNoRollback(d, queries) == RunAll(d, queries)

\* Database.transaction: withTransactionAsync runs the statements in order
\* and rolls everything back when one of them throws.
Transaction(d, queries) ==
    LET r == RunAll(d, queries)
    IN  IF r.ok THEN r ELSE [ok |-> FALSE, db |-> d]

(***************************************************************************)
(* Folder model and FolderFactory.                                         *)
(***************************************************************************)
FolderNameMaxLength == 100
InvalidChars == {"<", ">", ":", "\"", "/", "\\", "|", "?", "*"}

\* FolderModel.validate: name required, at most 100 characters, none of the
\* characters a file system forbids.
FolderValidate(row) ==
    /\ row.name # <<>>
    /\ Len(row.name) <= FolderNameMaxLength
    /\ \A i \in 1..Len(row.name) : row.name[i] \notin InvalidChars

\* FolderFactory.create: the name is trimmed, the path is built from the
\* parent's id and the name as passed, the level is 0.
FolderFactoryCreate(input) ==
    [name |-> Trim(input.name),
     parentId |-> input.parentId,
     path |-> IF input.parentId # Null
              THEN Slash(<<input.parentId>>, input.name)
              ELSE input.name,
     level |-> 0,
     status |-> "active",
     type |-> input.type,
     isProtected |-> FALSE,
     isSystemFolder |-> (input.type = "system")]

\* BaseModel.update: this.data = {...this.data, ...input}
Merge(row, patch) ==
    [f \in DOMAIN row |-> IF f \in DOMAIN patch THEN patch[f] ELSE row[f]]

EmptyPatch == [f \in {} |-> Null]

\* FolderModel.setStatus: [ok, row]
FolderSetStatus(row, status) ==
    IF row.isProtected /\ status = "deleted"
    THEN [ok |-> FALSE, row |-> row]
    ELSE [ok |-> TRUE, row |-> [row EXCEPT !.status = status]]

\* FolderModel.canBeDeleted
FolderCanBeDeleted(row) ==
    ~row.isProtected /\ ~row.isSystemFolder /\ row.status # "deleted"

(***************************************************************************)
(* FolderRepositoryImplementation.                                         *)
(***************************************************************************)
\* A findById without the status filter: WHERE id = ?
FolderFoundAnyStatus(d, id) == id \in DOMAIN d.folders

\* findById: WHERE id = ? AND status != 'deleted'
FolderFound(d, id) ==
    id \in DOMAIN d.folders /\ d.folders[id].status # "deleted"

\* findAll(filters): WHERE status != 'deleted', and AND parent_id = ? only
\* `if (filters.parentId)`, which a null parentId is not.
FolderFindAll(d, parentId) ==
    {id \in DOMAIN d.folders :
        /\ d.folders[id].status # "deleted"
        /\ (parentId # Null => d.folders[id].parentId = parentId)}

FolderFindByFolderId(d, folderId) == FolderFindAll(d, folderId)

\* generateId: an id no row has.
NewFolderId(d) == FolderId(Cardinality(DOMAIN d.folders) + 1)

Result(err, d, id) == [err |-> err, db |-> d, id |-> id]

\* create: FolderFactory.create, validate, then one transaction inserting
\* the row and its folder_tags rows.
FolderRepoCreate(d, input) ==
    LET id == NewFolderId(d)
        row == FolderFactoryCreate(input)
        tagRows == [i \in 1..Len(input.tagIds) |->
                       [k |-> "insFolderTag", s |-> id, t |-> input.tagIds[i]]]
        r == Transaction(d, <<[k |-> "insFolder", id |-> id, row |-> row]>> \o tagRows)
    IN  IF ~FolderValidate(row) THEN Result("validation", d, Null)
        ELSE IF ~r.ok THEN Result("persistence", r.db, Null)
        ELSE Result("ok", r.db, id)

\* update: findById, BaseModel.update with the patch, validate, then
\* UPDATE folders SET name, parent_id, path, level, status, type,
\* is_protected, ... WHERE id = ? (is_system_folder is not written).
FolderRepoUpdate(d, id, patch) ==
    IF ~FolderFound(d, id) THEN Result("notFound", d, id)
    ELSE LET old == d.folders[id]
             row == [Merge(old, patch) EXCEPT !.isSystemFolder = old.isSystemFolder]
         IN  IF ~FolderValidate(row) THEN Result("validation", d, id)
             ELSE IF \/ \E o \in DOMAIN d.folders \ {id} : d.folders[o].path = row.path
                     \/ (row.parentId # Null /\ row.parentId \notin DOMAIN d.folders)
             THEN Result("persistence", d, id)
             ELSE Result("ok", [d EXCEPT !.folders = Put(@, id, row)], id)

\* delete: UPDATE folders SET status = 'deleted' WHERE id = ?
FolderRepoDelete(d, id) ==
    IF id \in DOMAIN d.folders
    THEN Result("ok", [d EXCEPT !.folders[id].status = "deleted"], id)
    ELSE Result("noRow", d, id)

(***************************************************************************)
(* File model, FileFactory and FileRepositoryImplementation.               *)
(***************************************************************************)
FileNameMaxLength == 255

\* FileModel.validate, for inputs with an extension and a size within the
\* limit: name required, at most 255 characters.
FileValidate(row) ==
    /\ row.name # <<>>
    /\ Len(row.name) <= FileNameMaxLength

\* FileFactory.create
FileFactoryCreate(input) ==
    [name |-> Trim(input.name),
     folderId |-> input.folderId,
     path |-> IF input.folderId # Null
              THEN Slash(<<input.folderId>>, input.name)
              ELSE input.name,
     status |-> "active"]

\* findById: WHERE id = ? AND status != 'deleted'
FileFound(d, id) ==
    id \in DOMAIN d.files /\ d.files[id].status # "deleted"

\* findAll(filters): AND folder_id = ? only `if (filters.folderId)`
FileFindAll(d, folderId) ==
    {id \in DOMAIN d.files :
        /\ d.files[id].status # "deleted"
        /\ (folderId # Null => d.files[id].folderId = folderId)}

FileFindByFolderId(d, folderId) == FileFindAll(d, folderId)

NewFileId(d) == FileId(Cardinality(DOMAIN d.files) + 1)

\* create: FileFactory.create, validate, one transaction inserting the row
\* and its file_tags rows.
FileRepoCreate(d, input) ==
    LET id == NewFileId(d)
        row == FileFactoryCreate(input)
        tagRows == [i \in 1..Len(input.tagIds) |->
                       [k |-> "insFileTag", s |-> id, t |-> input.tagIds[i]]]
        r == Transaction(d, <<[k |-> "insFile", id |-> id, row |-> row]>> \o tagRows)
    IN  IF ~FileValidate(row) THEN Result("validation", d, Null)
        ELSE IF ~r.ok THEN Result("persistence", r.db, Null)
        ELSE Result("ok", r.db, id)

\* update: findById, BaseModel.update with the patch, validate, then
\* UPDATE files SET name, folder_id, path, status, ... WHERE id = ?
FileRepoUpdate(d, id, patch) ==
    IF ~FileFound(d, id) THEN Result("notFound", d, id)
    ELSE LET row == Merge(d.files[id], patch)
         IN  IF ~FileValidate(row) THEN Result("validation", d, id)
             ELSE IF \/ \E o \in DOMAIN d.files \ {id} : d.files[o].path = row.path
                     \/ (row.folderId # Null /\ row.folderId \notin DOMAIN d.folders)
             THEN Result("persistence", d, id)
             ELSE Result("ok", [d EXCEPT !.files = Put(@, id, row)], id)

(***************************************************************************)
(* FolderService.                                                          *)
(***************************************************************************)
\* validateParentFolder: the parent is found (findById hides deleted rows,
\* so the test of parent.status never sees 'deleted').
ValidateParentFolder(d, parentId) == FolderFound(d, parentId)

\* validateUniqueFolderName: no sibling other than excludeFolderId has the
\* name; the siblings are findByFolderId(parentId), or findAll({parentId:
\* null}) for the root level.
ValidateUniqueFolderName(d, name, parentId, excludeFolderId) ==
    LET siblings == IF parentId # Null
                    THEN FolderFindByFolderId(d, parentId)
                    ELSE FolderFindAll(d, Null)
    IN  ~\E f \in siblings : d.folders[f].name = name /\ f # excludeFolderId

\* The walk of validateNotDescendant from currentId upwards: "cycle" when it
\* meets folderId, "ok" when it ends at a parentless or unfound folder, and
\* "diverges" when it comes back to a folder it has visited (the while loop
\* then never ends).
RECURSIVE WalkUp(_, _, _, _)
WalkUp(d, folderId, currentId, visited) ==
    IF currentId = Null THEN "ok"
    ELSE IF currentId = folderId THEN "cycle"
    ELSE IF currentId \in visited THEN "diverges"
    ELSE IF ~FolderFound(d, currentId) THEN "ok"
    ELSE WalkUp(d, folderId, d.folders[currentId].parentId, visited \cup {currentId})

ValidateNotDescendant(d, folderId, targetParentId) ==
    WalkUp(d, folderId, targetParentId, {})

\* getFolderContentCount
GetFolderContentCount(d, folderId) ==
    [files |-> Cardinality(FileFindByFolderId(d, folderId)),
     folders |-> Cardinality(FolderFindByFolderId(d, folderId))]

ValidateFolderEmptyFilesOnly(d, folderId) ==
    GetFolderContentCount(d, folderId).files = 0

\* validateFolderEmpty
ValidateFolderEmpty(d, folderId) ==
    LET content == GetFolderContentCount(d, folderId)
    IN  ~(content.files > 0 \/ content.folders > 0)

\* createFolder(input)
CreateFolderOp(d, input) ==
    IF input.parentId # Null /\ ~ValidateParentFolder(d, input.parentId)
    THEN Result("parentNotFound", d, Null)
    ELSE IF ~ValidateUniqueFolderName(d, input.name, input.parentId, Null)
    THEN Result("duplicate", d, Null)
    ELSE FolderRepoCreate(d, input)

\* moveFolder(folderId, newParentId)
MoveFolderOp(d, folderId, newParentId) ==
    IF ~FolderFound(d, folderId) THEN Result("notFound", d, folderId)
    ELSE LET walk == IF newParentId # Null
                     THEN ValidateNotDescendant(d, folderId, newParentId)
                     ELSE "ok"
         IN  IF walk # "ok" THEN Result(walk, d, folderId)
             ELSE IF newParentId # Null /\ ~ValidateParentFolder(d, newParentId)
             THEN Result("parentNotFound", d, folderId)
             ELSE IF ~ValidateUniqueFolderName(d, d.folders[folderId].name,
                                               newParentId, folderId)
             THEN Result("duplicate", d, folderId)
             ELSE FolderRepoUpdate(d, folderId,
                                   IF newParentId # Null
                                   THEN [parentId |-> newParentId]
                                   ELSE EmptyPatch)

\* renameFolder(folderId, newName)
RenameFolderOp(d, folderId, newName) ==
    IF ~FolderFound(d, folderId) THEN Result("notFound", d, folderId)
    ELSE IF ~ValidateUniqueFolderName(d, newName, d.folders[folderId].parentId,
                                      folderId)
    THEN Result("duplicate", d, folderId)
    ELSE FolderRepoUpdate(d, folderId, [name |-> newName])

\* deleteFolder(folderId, force)
DeleteFolderOp(d, folderId, force) ==
    IF ~FolderFound(d, folderId) THEN Result("notFound", d, folderId)
    ELSE IF ~force /\ ~ValidateFolderEmpty(d, folderId)
    THEN Result("nonEmpty", d, folderId)
    ELSE FolderRepoUpdate(d, folderId, [status |-> "deleted"])

(***************************************************************************)
(* FileService.                                                            *)
(***************************************************************************)
\* validateUniqueFileName
ValidateUniqueFileName(d, fileName, folderId, excludeFileId) ==
    ~\E f \in FileFindByFolderId(d, folderId) :
        d.files[f].name = fileName /\ f # excludeFileId

\* createFile(input): validateTargetFolder, then fileRepo.create
CreateFileOp(d, input) ==
    IF input.folderId # Null /\ ~FolderFound(d, input.folderId)
    THEN Result("parentNotFound", d, Null)
    ELSE FileRepoCreate(d, input)

\* moveFile(fileId, targetFolderId)
MoveFileOp(d, fileId, targetFolderId) ==
    IF ~FileFound(d, fileId) THEN Result("notFound", d, fileId)
    ELSE IF ~FolderFound(d, targetFolderId) THEN Result("parentNotFound", d, fileId)
    ELSE IF d.files[fileId].folderId = targetFolderId
    THEN Result("sameFolder", d, fileId)
    ELSE IF ~ValidateUniqueFileName(d, d.files[fileId].name, targetFolderId, fileId)
    THEN Result("duplicate", d, fileId)
    ELSE FileRepoUpdate(d, fileId, [folderId |-> targetFolderId])

\* deleteFile(fileId)
DeleteFileOp(d, fileId) ==
    IF ~FileFound(d, fileId) THEN Result("notFound", d, fileId)
    ELSE FileRepoUpdate(d, fileId, [status |-> "deleted"])

(***************************************************************************)
(* The folder and file operations as actions.                              *)
(***************************************************************************)
FolderTypes == {"regular", "system"}

\* createFolder with a name of names and a type of types
CreateFolder(names, types) ==
    \E name \in names, parentId \in DOMAIN folders \cup {Null}, type \in types :
        LET r == CreateFolderOp(DB, [name |-> name, parentId |-> parentId,
                                     type |-> type, tagIds |-> <<>>])
        IN  /\ r.err = "ok" => Cardinality(DOMAIN folders) < MaxFolders
            /\ SetDB(r.db)
            /\ last' = Call("createFolder", r.id, parentId, name, type = "system", r.err)

MoveFolder ==
    \E folderId \in DOMAIN folders, newParentId \in DOMAIN folders \cup {Null} :
        LET r == MoveFolderOp(DB, folderId, newParentId)
        IN  /\ SetDB(r.db)
            /\ last' = Call("moveFolder", folderId, newParentId, <<>>, FALSE, r.err)

RenameFolder(names) ==
    \E folderId \in DOMAIN folders, newName \in names :
        LET r == RenameFolderOp(DB, folderId, newName)
        IN  /\ SetDB(r.db)
            /\ last' = Call("renameFolder", folderId, Null, newName, FALSE, r.err)

DeleteFolder ==
    \E folderId \in DOMAIN folders, force \in BOOLEAN :
        LET r == DeleteFolderOp(DB, folderId, force)
        IN  /\ SetDB(r.db)
            /\ last' = Call("deleteFolder", folderId, Null, <<>>, force, r.err)

\* FolderRepository.update(id, {isProtected: true})
ProtectFolder ==
    \E folderId \in DOMAIN folders :
        LET r == FolderRepoUpdate(DB, folderId, [isProtected |-> TRUE])
        IN  /\ SetDB(r.db)
            /\ last' = Call("protectFolder", folderId, Null, <<>>, FALSE, r.err)

CreateFile(names) ==
    \E name \in names, folderId \in DOMAIN folders \cup {Null} :
        LET r == CreateFileOp(DB, [name |-> name, folderId |-> folderId,
                                   tagIds |-> <<>>])
        IN  /\ r.err = "ok" => Cardinality(DOMAIN files) < MaxFiles
            /\ SetDB(r.db)
            /\ last' = Call("createFile", r.id, folderId, name, FALSE, r.err)

MoveFile ==
    \E fileId \in DOMAIN files, targetFolderId \in DOMAIN folders :
        LET r == MoveFileOp(DB, fileId, targetFolderId)
        IN  /\ SetDB(r.db)
            /\ last' = Call("moveFile", fileId, targetFolderId, <<>>, FALSE, r.err)

DeleteFile ==
    \E fileId \in DOMAIN files :
        LET r == DeleteFileOp(DB, fileId)
        IN  /\ SetDB(r.db)
            /\ last' = Call("deleteFile", fileId, Null, <<>>, FALSE, r.err)

\* The store after Database.initialize and the migrations: empty tables.
Init ==
    /\ SetDBInit
    /\ last = NoCall
    /\ mem = NoModels
    /\ tasks = NoTasks

NextTree ==
    \/ CreateFolder({NameA, NameSpA}, {"regular"})
    \/ MoveFolder
    \/ RenameFolder({NameB})
    \/ DeleteFolder

\* The folder tree: folders created, moved, renamed and deleted through
\* FolderService, from an empty store.
SpecTree == Init /\ [][NextTree]_vars

(***************************************************************************)
(* The folder tree as the stored rows describe it.                         *)
(***************************************************************************)
\* The folders met by following the stored parentId links upwards from id,
\* whatever their status.
RECURSIVE AncestorsFrom(_, _, _)
AncestorsFrom(tbl, id, seen) ==
    LET p == tbl[id].parentId
    IN  IF p = Null \/ p \notin DOMAIN tbl \/ p \in seen THEN seen
        ELSE AncestorsFrom(tbl, p, seen \cup {p})

Ancestors(tbl, id) == AncestorsFrom(tbl, id, {})

\* The '/'-joined names from the root down to id.
RECURSIVE NameChainFrom(_, _, _)
NameChainFrom(tbl, id, seen) ==
    LET p == tbl[id].parentId
    IN  IF p = Null \/ p \notin DOMAIN tbl \/ p \in seen THEN tbl[id].name
        ELSE Slash(NameChainFrom(tbl, p, seen \cup {id}), tbl[id].name)

NameChain(tbl, id) == NameChainFrom(tbl, id, {})

\* C2: moveFolder(A, B) of a non-deleted folder A under a non-deleted
\* folder B fails with the cycle error exactly when B is A or has A among
\* its ancestors by the stored parentId links (whatever the status of the
\* folders between them), and a failing moveFolder leaves the store as it
\* was.
C2_CycleIffDescendant ==
    [][(/\ last'.op = "moveFolder"
        /\ last'.to # Null
        /\ FolderFound(DB, last'.id)
        /\ FolderFound(DB, last'.to))
         => /\ (last'.err = "cycle") <=>
                  (last'.to = last'.id \/ last'.id \in Ancestors(folders, last'.to))
            /\ last'.err # "ok" => folders' = folders]_vars

\* C3: the stored level of every folder is the number of its ancestors.
C3_LevelIsDepth ==
    \A f \in DOMAIN folders : folders[f].level = Cardinality(Ancestors(folders, f))

\* C4: a successful createFolder, renameFolder or moveFolder leaves the
\* folder's stored path equal to the '/'-joined names of its ancestors
\* followed by its own name.
C4_PathIsNameChain ==
    [][(last'.op \in {"createFolder", "renameFolder", "moveFolder"} /\ last'.err = "ok")
         => folders'[last'.id].path = NameChain(folders', last'.id)]_vars

\* C5: no two non-deleted folders with the same parent have the same stored
\* name.
C5_UniqueSiblingNames ==
    \A f, g \in DOMAIN folders :
        (/\ f # g
         /\ folders[f].status # "deleted"
         /\ folders[g].status # "deleted"
         /\ folders[f].parentId = folders[g].parentId)
            => folders[f].name # folders[g].name

(***************************************************************************)
(* Protected and system folders.                                           *)
(***************************************************************************)
\* FolderRepository.update(id, {status: 'deleted'})
UpdateFolderStatusDeleted ==
    \E folderId \in DOMAIN folders :
        LET r == FolderRepoUpdate(DB, folderId, [status |-> "deleted"])
        IN  /\ SetDB(r.db)
            /\ last' = Call("updateFolder", folderId, Null, <<>>, FALSE, r.err)

NextProtect ==
    \/ CreateFolder({NameA}, FolderTypes)
    \/ ProtectFolder
    \/ DeleteFolder
    \/ UpdateFolderStatusDeleted

\* Regular and system folders created, protected and deleted.
SpecProtect == Init /\ [][NextProtect]_vars

\* C6: a folder whose isProtected or isSystemFolder flag is set never has
\* status 'deleted'.
C6_ProtectedNeverDeleted ==
    \A f \in DOMAIN folders :
        (folders[f].isProtected \/ folders[f].isSystemFolder)
            => folders[f].status # "deleted"

(***************************************************************************)
(* Deleting folders with contents.                                         *)
(***************************************************************************)
NextDelete ==
    \/ CreateFolder({NameA, NameB}, {"regular"})
    \/ CreateFile({NameA})
    \/ MoveFile
    \/ DeleteFile
    \/ DeleteFolder

\* Folders and a file created, the file moved and deleted, folders deleted.
SpecDelete == Init /\ [][NextDelete]_vars

\* A non-deleted subfolder or file directly under folder id.
HasLiveChild(id) ==
    \/ \E g \in DOMAIN folders :
           folders[g].parentId = id /\ folders[g].status # "deleted"
    \/ \E x \in DOMAIN files :
           files[x].folderId = id /\ files[x].status # "deleted"

\* C7: deleteFolder(F, force) of a non-deleted folder F fails with the
\* non-empty error and changes nothing when force is false and F has a
\* non-deleted direct child; otherwise it succeeds, F's status becomes
\* 'deleted' and no other folder or file row changes.
C7_DeleteFolderContents ==
    [][(last'.op = "deleteFolder" /\ FolderFound(DB, last'.id))
         => IF ~last'.flag /\ HasLiveChild(last'.id)
            THEN /\ last'.err = "nonEmpty"
                 /\ folders' = folders
                 /\ files' = files
            ELSE /\ last'.err = "ok"
                 /\ folders'[last'.id].status = "deleted"
                 /\ \A g \in DOMAIN folders \ {last'.id} : folders'[g] = folders[g]
                 /\ DOMAIN folders' = DOMAIN folders
                 /\ files' = files]_vars

\* A deleteFolder without force has just been refused on a folder that has a
\* non-deleted child.
C7_Witness ==
    /\ last.op = "deleteFolder"
    /\ ~last.flag
    /\ last.err = "nonEmpty"
    /\ HasLiveChild(last.id)

(***************************************************************************)
(* Tag model, TagFactory and TagRepository.                                *)
(***************************************************************************)
TagNameMaxLength == 50

\* TagModel.validate
TagValidate(row) ==
    /\ row.name # <<>>
    /\ Len(row.name) <= TagNameMaxLength

\* TagFactory.create; parentId only `input.parentId && { parentId }`
TagFactoryCreate(input) ==
    [name |-> Trim(input.name), type |-> input.type,
     isActive |-> TRUE, usageCount |-> 0,
     parentId |-> IF "parentId" \in DOMAIN input THEN input.parentId ELSE Null]

\* findById: WHERE id = ? AND is_active = true
TagFound(d, id) == id \in DOMAIN d.tags /\ d.tags[id].isActive

\* findByName: the active row with this name, if any (name is UNIQUE)
TagFindByName(d, name) ==
    LET rows == {t \in DOMAIN d.tags : d.tags[t].name = name /\ d.tags[t].isActive}
    IN  IF rows = {} THEN Null ELSE CHOOSE t \in rows : TRUE

\* findAll({type, status: 'active'})
TagFindAll(d, type) ==
    {t \in DOMAIN d.tags : d.tags[t].isActive /\ d.tags[t].type = type}

\* name TEXT NOT NULL UNIQUE, over every row of tags but id's own
TagNameTaken(table, name, id) ==
    \E t \in DOMAIN table \ {id} : table[t].name = name

\* parent_id TEXT REFERENCES tags(id), for the row id being written
TagParentMissing(table, id, parentId) ==
    parentId # Null /\ parentId \notin DOMAIN table \cup {id}

NewTagId(d) == TagId(Cardinality(DOMAIN d.tags) + 1)

\* TagRepository.create
TagRepoCreate(d, input) ==
    LET row == TagFactoryCreate(input)
        id == NewTagId(d)
    IN  IF ~TagValidate(row) THEN Result("validation", d, Null)
        ELSE IF \/ id \in DOMAIN d.tags
                \/ TagNameTaken(d.tags, row.name, id)
                \/ TagParentMissing(d.tags, id, row.parentId)
        THEN Result("persistence", d, Null)
        ELSE Result("ok", [d EXCEPT !.tags = Put(@, id, row)], id)

\* TagRepository.update: the UPDATE writes name, type and parent_id (and
\* description, priority, color), never is_active or usage_count.
TagRepoUpdate(d, id, patch) ==
    IF ~TagFound(d, id) THEN Result("notFound", d, id)
    ELSE LET old == d.tags[id]
             tag == Merge(old, patch)
             row == [old EXCEPT !.name = tag.name, !.type = tag.type,
                                !.parentId = tag.parentId]
         IN  IF ~TagValidate(tag) THEN Result("validation", d, id)
             ELSE IF \/ TagNameTaken(d.tags, row.name, id)
                     \/ TagParentMissing(d.tags, id, row.parentId)
             THEN Result("persistence", d, id)
             ELSE Result("ok", [d EXCEPT !.tags = Put(@, id, row)], id)

\* TagRepository.delete: UPDATE tags SET is_active = false WHERE id = ?
TagRepoDelete(d, id) ==
    IF id \in DOMAIN d.tags
    THEN Result("ok", [d EXCEPT !.tags[id].isActive = FALSE], id)
    ELSE Result("noRow", d, id)

\* TagRepository.bulkDelete: UPDATE tags SET is_active = false WHERE id IN ids
TagRepoBulkDelete(d, ids) ==
    Result("ok",
           [d EXCEPT !.tags = [t \in DOMAIN @ |->
                                 IF t \in ids THEN [@[t] EXCEPT !.isActive = FALSE]
                                 ELSE @[t]]],
           Null)

\* TagAssignmentRepository.cleanupUnusedTags: the active tags of a type other
\* than 'system' with no file_tags and no folder_tags row are deactivated.
AssignmentCleanupUnusedTags(d) ==
    LET unusedTagIds ==
            {t \in DOMAIN d.tags :
                /\ d.tags[t].isActive
                /\ d.tags[t].type # "system"
                /\ ~\E r \in d.fileTags : r[2] = t
                /\ ~\E r \in d.folderTags : r[2] = t}
    IN  TagRepoBulkDelete(d, unusedTagIds)

(***************************************************************************)
(* TagService.                                                             *)
(***************************************************************************)
ValidateUniqueTagNameNoExclude(d, name, excludeTagId) ==
    TagFindByName(d, name) = Null

\* validateUniqueTagName
ValidateUniqueTagName(d, name, excludeTagId) ==
    LET existing == TagFindByName(d, name)
    IN  ~(existing # Null /\ existing # excludeTagId)

\* createTag(input)
CreateTagOp(d, input) ==
    IF ~ValidateUniqueTagName(d, input.name, Null) THEN Result("duplicate", d, Null)
    ELSE TagRepoCreate(d, input)

\* renameTag(tagId, newName)
RenameTagOp(d, tagId, newName) ==
    IF ~TagFound(d, tagId) THEN Result("notFound", d, tagId)
    ELSE IF ~ValidateUniqueTagName(d, newName, tagId) THEN Result("duplicate", d, tagId)
    ELSE TagRepoUpdate(d, tagId, [name |-> newName])

\* deleteTag(tagId)
DeleteTagOp(d, tagId) ==
    IF ~TagFound(d, tagId) THEN Result("notFound", d, tagId)
    ELSE IF d.tags[tagId].type = "system" THEN Result("system", d, tagId)
    ELSE TagRepoUpdate(d, tagId, [isActive |-> FALSE])

\* getTagUsageCount(tagId): the file_tags rows plus the folder_tags rows
GetTagUsageCount(d, tagId) ==
    Cardinality({r \in d.fileTags : r[2] = tagId})
        + Cardinality({r \in d.folderTags : r[2] = tagId})

\* The loop of cleanupUnusedTags over the tags still to visit; the first
\* deleteTag that throws ends it.
RECURSIVE CleanupLoop(_, _)
CleanupLoop(d, todo) ==
    IF todo = {} THEN Result("ok", d, Null)
    ELSE LET t == CHOOSE x \in todo : TRUE
         IN  IF GetTagUsageCount(d, t) # 0 THEN CleanupLoop(d, todo \ {t})
             ELSE LET r == DeleteTagOp(d, t)
                  IN  IF r.err # "ok" THEN r ELSE CleanupLoop(r.db, todo \ {t})

\* TagService.cleanupUnusedTags
CleanupUnusedTagsOp(d) == CleanupLoop(d, TagFindAll(d, "user"))

(***************************************************************************)
(* The tag operations as actions.                                          *)
(***************************************************************************)
TagTypes == {"user", "system"}

CreateTag(names, types) ==
    \E name \in names, type \in types :
        LET r == CreateTagOp(DB, [name |-> name, type |-> type])
        IN  /\ r.err = "ok" => Cardinality(DOMAIN tags) < MaxTags
            /\ SetDB(r.db)
            /\ last' = Call("createTag", r.id, Null, name, type = "system", r.err)

RenameTag(names) ==
    \E tagId \in DOMAIN tags, newName \in names :
        LET r == RenameTagOp(DB, tagId, newName)
        IN  /\ SetDB(r.db)
            /\ last' = Call("renameTag", tagId, Null, newName, FALSE, r.err)

DeleteTag ==
    \E tagId \in DOMAIN tags :
        LET r == DeleteTagOp(DB, tagId)
        IN  /\ SetDB(r.db)
            /\ last' = Call("deleteTag", tagId, Null, <<>>, FALSE, r.err)

\* TagRepository.delete(id)
RepoDeleteTag ==
    \E tagId \in DOMAIN tags :
        LET r == TagRepoDelete(DB, tagId)
        IN  /\ SetDB(r.db)
            /\ last' = Call("repoDeleteTag", tagId, Null, <<>>, FALSE, r.err)

\* TagRepository.bulkDelete(ids)
BulkDeleteTags ==
    \E ids \in SUBSET DOMAIN tags :
        LET r == IF ids = {} THEN Result("ok", DB, Null) ELSE TagRepoBulkDelete(DB, ids)
        IN  /\ SetDB(r.db)
            /\ last' = Call("bulkDeleteTags", Null, ids, <<>>, FALSE, r.err)

\* TagService.cleanupUnusedTags()
CleanupUnusedTags ==
    LET r == CleanupUnusedTagsOp(DB)
    IN  /\ SetDB(r.db)
        /\ last' = Call("cleanupUnusedTags", Null, Null, <<>>, FALSE, r.err)

\* TagAssignmentRepository.cleanupUnusedTags()
RepoCleanupUnusedTags ==
    LET r == AssignmentCleanupUnusedTags(DB)
    IN  /\ SetDB(r.db)
        /\ last' = Call("repoCleanupUnusedTags", Null, Null, <<>>, FALSE, r.err)

NextTag ==
    \/ CreateTag(RawNames, TagTypes)
    \/ RenameTag(RawNames)
    \/ DeleteTag
    \/ RepoDeleteTag
    \/ BulkDeleteTags
    \/ CleanupUnusedTags
    \/ RepoCleanupUnusedTags

\* Tags created, renamed and deleted through TagService and the repositories.
SpecTag == Init /\ [][NextTag]_vars

\* C8: a tag of type 'system' is always active.
C8_SystemTagStaysActive ==
    \A t \in DOMAIN tags : tags[t].type = "system" => tags[t].isActive

\* No two active tags have the same name.
ActiveNamesUnique(table) ==
    \A t, u \in DOMAIN table :
        (t # u /\ table[t].isActive /\ table[u].isActive)
            => table[t].name # table[u].name

\* An active tag other than id is named name.
OtherActiveNamed(name, id) ==
    \E t \in DOMAIN tags \ {id} : tags[t].isActive /\ tags[t].name = name

\* C9: createTag(n) fails with the duplicate-name error, changing nothing,
\* when an active tag is named n; renameTag(T, n) of an active tag T fails
\* the same way when an active tag other than T is named n, and succeeds
\* when n is T's own name; and after every step no two active tags have the
\* same name.
C9_ActiveTagNamesUnique ==
    [][/\ (last'.op = "createTag" /\ OtherActiveNamed(last'.str, Null))
            => (last'.err = "duplicate" /\ tags' = tags)
       /\ (last'.op = "renameTag" /\ TagFound(DB, last'.id))
            => /\ OtherActiveNamed(last'.str, last'.id)
                    => (last'.err = "duplicate" /\ tags' = tags)
               /\ tags[last'.id].name = last'.str
                    => (last'.err = "ok" /\ tags'[last'.id].name = last'.str)
       /\ ActiveNamesUnique(tags')]_vars

\* Two tags are active and renaming one of them to its own name has just
\* succeeded.
C9_Witness ==
    /\ last.op = "renameTag"
    /\ last.err = "ok"
    /\ TagFound(DB, last.id)
    /\ tags[last.id].name = last.str
    /\ \E t \in DOMAIN tags \ {last.id} : tags[t].isActive

(***************************************************************************)
(* TagAssignmentRepository.                                                *)
(***************************************************************************)
Range(seq) == {seq[i] : i \in 1..Len(seq)}

\* getFileTagIds, getFolderTagIds
GetFileTagIds(d, fileId) == {r[2] : r \in {q \in d.fileTags : q[1] = fileId}}
GetFolderTagIds(d, folderId) == {r[2] : r \in {q \in d.folderTags : q[1] = folderId}}

\* assignTagsToFile(fileId, tagIds): the tagIds the file does not hold yet
\* are inserted in one transaction, in the order and as often as they are
\* listed.
AssignTagsToFileOp(d, fileId, tagIds) ==
    LET existingTagIds == GetFileTagIds(d, fileId)
        IsNew(t) == t \notin existingTagIds
        newTagIds == SelectSeq(tagIds, IsNew)
        r == Transaction(d, [i \in 1..Len(newTagIds) |->
                               [k |-> "insFileTag", s |-> fileId, t |-> newTagIds[i]]])
    IN  IF tagIds = <<>> \/ newTagIds = <<>> THEN Result("ok", d, fileId)
        ELSE IF ~r.ok THEN Result("persistence", r.db, fileId)
        ELSE Result("ok", r.db, fileId)

\* removeTagsFromFile(fileId, tagIds)
RemoveTagsFromFileOp(d, fileId, tagIds) ==
    IF tagIds = <<>> THEN Result("ok", d, fileId)
    ELSE Result("ok",
                RunStatement(d, [k |-> "delFileTags", s |-> fileId,
                                 ts |-> Range(tagIds)]).db,
                fileId)

\* removeAllTagsFromFile(fileId)
RemoveAllTagsFromFileOp(d, fileId) ==
    Result("ok",
           RunStatement(d, [k |-> "delFileTags", s |-> fileId,
                            ts |-> GetFileTagIds(d, fileId)]).db,
           fileId)

\* assignTagsToFolder(folderId, tagIds)
AssignTagsToFolderOp(d, folderId, tagIds) ==
    LET existingTagIds == GetFolderTagIds(d, folderId)
        IsNew(t) == t \notin existingTagIds
        newTagIds == SelectSeq(tagIds, IsNew)
        r == Transaction(d, [i \in 1..Len(newTagIds) |->
                               [k |-> "insFolderTag", s |-> folderId, t |-> newTagIds[i]]])
    IN  IF tagIds = <<>> \/ newTagIds = <<>> THEN Result("ok", d, folderId)
        ELSE IF ~r.ok THEN Result("persistence", r.db, folderId)
        ELSE Result("ok", r.db, folderId)

\* removeTagsFromFolder(folderId, tagIds)
RemoveTagsFromFolderOp(d, folderId, tagIds) ==
    IF tagIds = <<>> THEN Result("ok", d, folderId)
    ELSE Result("ok",
                RunStatement(d, [k |-> "delFolderTags", s |-> folderId,
                                 ts |-> Range(tagIds)]).db,
                folderId)

\* removeAllTagsFromFolder(folderId)
RemoveAllTagsFromFolderOp(d, folderId) ==
    Result("ok",
           RunStatement(d, [k |-> "delFolderTags", s |-> folderId,
                            ts |-> GetFolderTagIds(d, folderId)]).db,
           folderId)

\* TagRepository.updateUsageCount(tagId, increment):
\* UPDATE tags SET usage_count = usage_count + ? WHERE id = ?
UpdateUsageCountOp(d, tagId, increment) ==
    IF tagId \in DOMAIN d.tags
    THEN Result("ok", [d EXCEPT !.tags[tagId].usageCount = @ + increment], tagId)
    ELSE Result("ok", d, tagId)

(***************************************************************************)
(* The assignment operations as actions.                                   *)
(***************************************************************************)
\* A store with one folder, MaxFiles files in it and MaxTags user tags,
\* built by the create operations from the empty store.
RECURSIVE StoreWithFiles(_, _)
StoreWithFiles(d, n) ==
    IF n = 0 THEN d
    ELSE CreateFileOp(StoreWithFiles(d, n - 1),
                      [name |-> <<"x", ToString(n)>>, folderId |-> FolderId(1),
                       tagIds |-> <<>>]).db

RECURSIVE StoreWithTags(_, _)
StoreWithTags(d, n) ==
    IF n = 0 THEN d
    ELSE CreateTagOp(StoreWithTags(d, n - 1),
                     [name |-> <<"t", ToString(n)>>, type |-> "user"]).db

TaggableStore ==
    StoreWithTags(
        StoreWithFiles(
            CreateFolderOp(EmptyDB, [name |-> NameA, parentId |-> Null,
                                     type |-> "regular", tagIds |-> <<>>]).db,
            MaxFiles),
        MaxTags)

InitAssign ==
    /\ folders = TaggableStore.folders
    /\ files = TaggableStore.files
    /\ tags = TaggableStore.tags
    /\ fileTags = TaggableStore.fileTags
    /\ folderTags = TaggableStore.folderTags
    /\ last = NoCall
    /\ mem = NoModels
    /\ tasks = NoTasks

\* The ids a caller may pass: the stored ones and one that is not stored.
AnyFileIds == DOMAIN files \cup {FileId(0)}
AnyFolderIds == DOMAIN folders \cup {FolderId(0)}
AnyTagIds == DOMAIN tags \cup {TagId(0)}

\* The lists of at most MaxTags tag ids, repetitions included.
TagIdLists == UNION {[1..n -> AnyTagIds] : n \in 0..MaxTags}

\* What an assignment call on a subject holding the tags had finds; trip is
\* for a remove call that follows the assign call of the same tag ids to the
\* same subject, and keeps what that assign call found and how it ended.
NoTrip == [done |-> FALSE, err |-> "ok", usage |-> <<>>, had |-> {}]

Pre(had) ==
    [usage |-> [t \in DOMAIN tags |-> tags[t].usageCount], had |-> had,
     trip |-> NoTrip]

PreTrip(had, assignOp, id, tagIds) ==
    [Pre(had) EXCEPT !.trip =
        IF last.op = assignOp /\ last.id = id /\ last.str = tagIds
        THEN [done |-> TRUE, err |-> last.err,
              usage |-> last.pre.usage, had |-> last.pre.had]
        ELSE NoTrip]

AssignTagsToFile ==
    \E fileId \in AnyFileIds, tagIds \in TagIdLists :
        LET r == AssignTagsToFileOp(DB, fileId, tagIds)
        IN  /\ SetDB(r.db)
            /\ last' = CallWithPre("assignTagsToFile", fileId, Null, tagIds, FALSE,
                                   r.err, Pre(GetFileTagIds(DB, fileId)))

RemoveTagsFromFile ==
    \E fileId \in AnyFileIds, tagIds \in TagIdLists :
        LET r == RemoveTagsFromFileOp(DB, fileId, tagIds)
        IN  /\ SetDB(r.db)
            /\ last' = CallWithPre("removeTagsFromFile", fileId, Null, tagIds, FALSE,
                                   r.err,
                                   PreTrip(GetFileTagIds(DB, fileId),
                                           "assignTagsToFile", fileId, tagIds))

RemoveAllTagsFromFile ==
    \E fileId \in AnyFileIds :
        LET r == RemoveAllTagsFromFileOp(DB, fileId)
        IN  /\ SetDB(r.db)
            /\ last' = CallWithPre("removeAllTagsFromFile", fileId, Null, <<>>, FALSE,
                                   r.err, Pre(GetFileTagIds(DB, fileId)))

AssignTagsToFolder ==
    \E folderId \in AnyFolderIds, tagIds \in TagIdLists :
        LET r == AssignTagsToFolderOp(DB, folderId, tagIds)
        IN  /\ SetDB(r.db)
            /\ last' = CallWithPre("assignTagsToFolder", folderId, Null, tagIds, FALSE,
                                   r.err, Pre(GetFolderTagIds(DB, folderId)))

RemoveTagsFromFolder ==
    \E folderId \in AnyFolderIds, tagIds \in TagIdLists :
        LET r == RemoveTagsFromFolderOp(DB, folderId, tagIds)
        IN  /\ SetDB(r.db)
            /\ last' = CallWithPre("removeTagsFromFolder", folderId, Null, tagIds, FALSE,
                                   r.err,
                                   PreTrip(GetFolderTagIds(DB, folderId),
                                           "assignTagsToFolder", folderId, tagIds))

RemoveAllTagsFromFolder ==
    \E folderId \in AnyFolderIds :
        LET r == RemoveAllTagsFromFolderOp(DB, folderId)
        IN  /\ SetDB(r.db)
            /\ last' = CallWithPre("removeAllTagsFromFolder", folderId, Null, <<>>, FALSE,
                                   r.err, Pre(GetFolderTagIds(DB, folderId)))

NextAssign ==
    \/ AssignTagsToFile
    \/ RemoveTagsFromFile
    \/ RemoveAllTagsFromFile
    \/ AssignTagsToFolder
    \/ RemoveTagsFromFolder
    \/ RemoveAllTagsFromFolder

\* Tags assigned to and removed from the files and the folder of a store.
SpecAssign == InitAssign /\ [][NextAssign]_vars

\* The file_tags and folder_tags rows of tag t.
AssignmentRows(t) ==
    Cardinality({r \in fileTags : r[2] = t}) + Cardinality({r \in folderTags : r[2] = t})

\* C1: every tag's usageCount is the number of file_tags rows plus the
\* number of folder_tags rows of the tag.
C1_UsageCountIsRowCount ==
    \A t \in DOMAIN tags : tags[t].usageCount = AssignmentRows(t)

\* A file that held t1 and t2 has just had t1 removed: t1 is counted 0 times
\* and t2 once.
C1_Witness ==
    /\ last.op = "removeTagsFromFile"
    /\ last.str = <<TagId(1)>>
    /\ {TagId(1), TagId(2)} \subseteq last.pre.had
    /\ last.pre.usage[TagId(1)] = 1
    /\ <<last.id, TagId(2)>> \in fileTags
    /\ <<last.id, TagId(1)>> \notin fileTags
    /\ tags[TagId(1)].usageCount = 0
    /\ tags[TagId(2)].usageCount = 1

(***************************************************************************)
(* Assignments together with the repository's counter operations.          *)
(***************************************************************************)
MaxDrift == 1

\* TagRepository.incrementUsage / decrementUsage / updateUsageCount(tagId,
\* +1 or -1), while the count stays within MaxDrift of the tag's rows.
UpdateUsageCount ==
    \E tagId \in DOMAIN tags, increment \in {1, -1} :
        LET r == UpdateUsageCountOp(DB, tagId, increment)
            drift == r.db.tags[tagId].usageCount - AssignmentRows(tagId)
        IN  /\ drift \in (0 - MaxDrift)..MaxDrift
            /\ SetDB(r.db)
            /\ last' = Call("updateUsageCount", tagId, Null, <<>>, increment = 1, r.err)

NextUsage ==
    \/ AssignTagsToFile
    \/ RemoveTagsFromFile
    \/ RemoveAllTagsFromFile
    \/ AssignTagsToFolder
    \/ RemoveTagsFromFolder
    \/ RemoveAllTagsFromFolder
    \/ UpdateUsageCount

\* The assignment operations and the counter operations on a store.
SpecUsage == InitAssign /\ [][NextUsage]_vars

\* A remove call has just followed the assign call of the same tag ids to
\* the same subject.
RoundTripDone ==
    /\ last.op \in {"removeTagsFromFile", "removeTagsFromFolder"}
    /\ last.pre.trip.done

GetTaggedFiles(d, tagId) == {r[1] : r \in {q \in d.fileTags : q[2] = tagId}}

\* getTaggedFolders(tagId): SELECT folder_id FROM folder_tags WHERE tag_id = ?
GetTaggedFolders(d, tagId) == {r[1] : r \in {q \in d.folderTags : q[2] = tagId}}

\* findByTagIds of FileRepository: files JOIN file_tags, status != 'deleted'
FileFindByTagIds(d, tagIds) ==
    {x \in DOMAIN d.files :
        /\ d.files[x].status # "deleted"
        /\ \E t \in tagIds : <<x, t>> \in d.fileTags}

\* findByTagIds of FolderRepository: folders JOIN folder_tags, status != 'deleted'
FolderFindByTagIds(d, tagIds) ==
    {f \in DOMAIN d.folders :
        /\ d.folders[f].status # "deleted"
        /\ \E t \in tagIds : <<f, t>> \in d.folderTags}

NextHidden ==
    \/ AssignTagsToFile
    \/ AssignTagsToFolder
    \/ DeleteFile
    \/ DeleteFolder
    \/ RepoDeleteTag

\* Tagged files and folders, and tags, being deleted.
SpecHidden == InitAssign /\ [][NextHidden]_vars

\* C11: a deleted folder, file or tag keeps its row, and no read returns it
\* or its id: findById, findAll, findByTagIds, getTaggedFiles,
\* getTaggedFolders, getFileTagIds and getFolderTagIds.
C11_DeletedHiddenFromReads ==
    /\ \A x \in DOMAIN files : files[x].status = "deleted" =>
          /\ ~FileFound(DB, x)
          /\ x \notin FileFindAll(DB, Null)
          /\ x \notin FileFindByTagIds(DB, DOMAIN tags)
          /\ \A t \in DOMAIN tags : x \notin GetTaggedFiles(DB, t)
    /\ \A f \in DOMAIN folders : folders[f].status = "deleted" =>
          /\ ~FolderFound(DB, f)
          /\ f \notin FolderFindAll(DB, Null)
          /\ f \notin FolderFindByTagIds(DB, DOMAIN tags)
          /\ \A t \in DOMAIN tags : f \notin GetTaggedFolders(DB, t)
    /\ \A t \in DOMAIN tags : ~tags[t].isActive =>
          /\ ~TagFound(DB, t)
          /\ t \notin TagFindAll(DB, tags[t].type)
          /\ \A x \in DOMAIN files : t \notin GetFileTagIds(DB, x)
          /\ \A f \in DOMAIN folders : t \notin GetFolderTagIds(DB, f)

\* C12: after TagService.deleteTag(T) returned true for an active non-system
\* tag T, T is inactive in the store: getTag(T) fails with not-found,
\* getAllTags and findByName do not return T, and a second deleteTag(T) fails
\* with not-found.
C12_DeleteTagDeactivates ==
    (last.op = "deleteTag" /\ last.err = "ok") =>
        /\ ~tags[last.id].isActive
        /\ ~TagFound(DB, last.id)
        /\ \A type \in TagTypes : last.id \notin TagFindAll(DB, type)
        /\ TagFindByName(DB, tags[last.id].name) # last.id
        /\ DeleteTagOp(DB, last.id).err = "notFound"

(***************************************************************************)
(* Files created in, moved between and deleted from folders.               *)
(***************************************************************************)
MaxFolderFiles == 2

\* createFile, while the store holds fewer than MaxFolderFiles files
CreateSiblingFile(names) ==
    \E name \in names, folderId \in DOMAIN folders \cup {Null} :
        LET r == CreateFileOp(DB, [name |-> name, folderId |-> folderId,
                                   tagIds |-> <<>>])
        IN  /\ r.err = "ok" => Cardinality(DOMAIN files) < MaxFolderFiles
            /\ SetDB(r.db)
            /\ last' = Call("createFile", r.id, folderId, name, FALSE, r.err)

\* A store with the two root folders 'a' and 'b', built by createFolder from
\* the empty store.
TwoFolderStore ==
    CreateFolderOp(
        CreateFolderOp(EmptyDB, [name |-> NameA, parentId |-> Null,
                                 type |-> "regular", tagIds |-> <<>>]).db,
        [name |-> NameB, parentId |-> Null, type |-> "regular", tagIds |-> <<>>]).db

InitFiles ==
    /\ folders = TwoFolderStore.folders
    /\ files = TwoFolderStore.files
    /\ tags = TwoFolderStore.tags
    /\ fileTags = TwoFolderStore.fileTags
    /\ folderTags = TwoFolderStore.folderTags
    /\ last = NoCall
    /\ mem = NoModels
    /\ tasks = NoTasks

NextFiles ==
    \/ CreateSiblingFile({NameA, NameSpA})
    \/ MoveFile
    \/ DeleteFile

\* Files created in, moved between and deleted from two folders.
SpecFiles == InitFiles /\ [][NextFiles]_vars

\* C13: after any sequence of createFile, moveFile and deleteFile no two
\* non-deleted files in the same folder have the same name.
C13_UniqueFileNamesInFolder ==
    \A x, y \in DOMAIN files :
        (/\ x # y
         /\ FileFound(DB, x)
         /\ FileFound(DB, y)
         /\ files[x].folderId # Null
         /\ files[x].folderId = files[y].folderId)
            => files[x].name # files[y].name

\* C14: every tag's usageCount is at least 0 in every reachable state,
\* under assign, unassign and the repository's incrementUsage,
\* decrementUsage and updateUsageCount; a decrement at 0 leaves 0.
C14_UsageCountNonNegative ==
    \A t \in DOMAIN tags : tags[t].usageCount >= 0

\* The relation rows and usage counts an assign call of stored tag ids to a
\* stored subject must leave: the rows the subject had and the requested
\* ones, each tag that was not held counted once more.
AssignedExactly(held) ==
    /\ held = last.pre.had \cup Range(last.str)
    /\ \A t \in DOMAIN tags :
          tags[t].usageCount =
              IF t \in Range(last.str) \ last.pre.had
              THEN last.pre.usage[t] + 1
              ELSE last.pre.usage[t]

\* C15: assign is idempotent: for every stored subject and list of stored
\* tag ids, an assignTagsToFile/assignTagsToFolder call inserts exactly the
\* requested pairs that were not present, each raising its tag's usageCount
\* by 1, and the same call made again leaves rows and counts as they are.
C15_AssignIdempotent ==
    /\ (/\ last.op = "assignTagsToFile"
        /\ last.id \in DOMAIN files
        /\ Range(last.str) \subseteq DOMAIN tags)
          => /\ AssignedExactly(GetFileTagIds(DB, last.id))
             /\ AssignTagsToFileOp(DB, last.id, last.str).db = DB
    /\ (/\ last.op = "assignTagsToFolder"
        /\ last.id \in DOMAIN folders
        /\ Range(last.str) \subseteq DOMAIN tags)
          => /\ AssignedExactly(GetFolderTagIds(DB, last.id))
             /\ AssignTagsToFolderOp(DB, last.id, last.str).db = DB

\* C16: after cleanupUnusedTags completed (TagAssignmentRepository's and
\* TagService's), every tag that is still active and not system-typed has
\* at least one file_tags or folder_tags row, and an immediately repeated
\* call finds nothing to deactivate.
C16_CleanupLeavesOnlyUsedTags ==
    (last.op \in {"cleanupUnusedTags", "repoCleanupUnusedTags"} /\ last.err = "ok")
        => /\ \A t \in DOMAIN tags :
                 (tags[t].isActive /\ tags[t].type # "system")
                     => GetTagUsageCount(DB, t) > 0
           /\ \A t \in TagFindAll(DB, "user") : GetTagUsageCount(DB, t) # 0

(***************************************************************************)
(* The tag hierarchy: parentId, createHierarchy and getTagTree.            *)
(***************************************************************************)
\* findAll(filters) of TagRepository: AND parent_id = ? only
\* `if (filters.parentId)`
TagFindAllByParent(d, parentId) ==
    {t \in DOMAIN d.tags :
        /\ d.tags[t].isActive
        /\ (parentId # Null => d.tags[t].parentId = parentId)}

\* findByParentId(parentId): findAll({ parentId })
TagFindByParentId(d, parentId) == TagFindAllByParent(d, parentId)

\* childNodes.reduce((sum, child) => sum + child.totalUsage, 0)
RECURSIVE SumTotalUsage(_)
SumTotalUsage(nodes) ==
    IF nodes = {} THEN 0
    ELSE LET n == CHOOSE x \in nodes : TRUE
         IN  n.totalUsage + SumTotalUsage(nodes \ {n})

\* buildTagTreeNode(tag): [tag, children, totalUsage]; the children of a
\* node are distinct tags, kept here as a set of nodes.
RECURSIVE BuildTagTreeNode(_, _)
BuildTagTreeNode(d, t) ==
    LET childNodes == {BuildTagTreeNode(d, c) : c \in TagFindByParentId(d, t)}
    IN  [tag |-> t, children |-> childNodes,
         totalUsage |-> d.tags[t].usageCount + SumTotalUsage(childNodes)]

\* getTagTree(): rootTags = findAll({ parentId: null }), a node of each
GetTagTree(d) == {BuildTagTreeNode(d, t) : t \in TagFindAllByParent(d, Null)}

\* createHierarchy(parentId, childIds): one transaction of
\* UPDATE tags SET parent_id = ? WHERE id = ?, a statement for each child
CreateHierarchyOp(d, parentId, childIds) ==
    LET r == Transaction(d, [i \in 1..Len(childIds) |->
                               [k |-> "setTagParent", id |-> childIds[i], p |-> parentId]])
    IN  IF ~r.ok THEN Result("persistence", r.db, parentId)
        ELSE Result("ok", r.db, parentId)

\* A store with one folder and MaxFiles files in it, and no tag.
FileStore ==
    StoreWithFiles(
        CreateFolderOp(EmptyDB, [name |-> NameA, parentId |-> Null,
                                 type |-> "regular", tagIds |-> <<>>]).db,
        MaxFiles)

InitHierarchy ==
    /\ folders = FileStore.folders
    /\ files = FileStore.files
    /\ tags = FileStore.tags
    /\ fileTags = FileStore.fileTags
    /\ folderTags = FileStore.folderTags
    /\ last = NoCall
    /\ mem = NoModels
    /\ tasks = NoTasks

\* createTag({name, parentId})
CreateChildTag(names) ==
    \E name \in names, parentId \in AnyTagIds \cup {Null} :
        LET r == CreateTagOp(DB, [name |-> name, type |-> "user",
                                  parentId |-> parentId])
        IN  /\ r.err = "ok" => Cardinality(DOMAIN tags) < MaxTags
            /\ SetDB(r.db)
            /\ last' = Call("createTag", r.id, parentId, name, FALSE, r.err)

\* TagRepository.update(id, {parentId})
UpdateTagParent ==
    \E tagId \in DOMAIN tags, parentId \in AnyTagIds \cup {Null} :
        LET r == TagRepoUpdate(DB, tagId, [parentId |-> parentId])
        IN  /\ SetDB(r.db)
            /\ last' = Call("updateTagParent", tagId, parentId, <<>>, FALSE, r.err)

\* TagRepository.createHierarchy(parentId, childIds)
CreateHierarchy ==
    \E parentId \in AnyTagIds, childIds \in TagIdLists :
        LET r == CreateHierarchyOp(DB, parentId, childIds)
        IN  /\ SetDB(r.db)
            /\ last' = Call("createHierarchy", parentId, Null, childIds, FALSE, r.err)

NextHierarchy ==
    \/ CreateChildTag({NameA, NameB})
    \/ UpdateTagParent
    \/ CreateHierarchy
    \/ AssignTagsToFile
    \/ RepoDeleteTag

\* Tags created under, and moved under, other tags, assigned and deleted.
SpecHierarchy == InitHierarchy /\ [][NextHierarchy]_vars

\* Following parentId from t reaches a parentless tag within n steps.
RECURSIVE TagReachesRoot(_, _, _)
TagReachesRoot(table, t, n) ==
    IF t = Null THEN TRUE
    ELSE IF n = 0 \/ t \notin DOMAIN table THEN FALSE
    ELSE TagReachesRoot(table, table[t].parentId, n - 1)

TagHierarchyAcyclic ==
    \A t \in DOMAIN tags : TagReachesRoot(tags, t, Cardinality(DOMAIN tags))

\* The nodes of a forest, at any depth, that hold tag t.
RECURSIVE TagOccurrences(_, _)
TagOccurrences(nodes, t) ==
    IF nodes = {} THEN 0
    ELSE LET n == CHOOSE x \in nodes : TRUE
         IN  (IF n.tag = t THEN 1 ELSE 0)
                 + TagOccurrences(n.children, t)
                 + TagOccurrences(nodes \ {n}, t)

\* C17: for an acyclic tag hierarchy, the top-level nodes of getTagTree are
\* exactly the active tags that have no parentId, and every tag appears at
\* most once in the whole forest.
C17_TagTreeIsForest ==
    TagHierarchyAcyclic
        => /\ {n.tag : n \in GetTagTree(DB)}
                  = {t \in DOMAIN tags : tags[t].isActive /\ tags[t].parentId = Null}
           /\ \A t \in DOMAIN tags : TagOccurrences(GetTagTree(DB), t) <= 1

\* C20: the tag hierarchy is acyclic in every reachable state: after any
\* sequence of tag create (with parentId), TagRepository.update (with
\* parentId) and createHierarchy, following parentId from any tag reaches a
\* parentless tag in finitely many steps and no tag is its own ancestor.
C20_TagHierarchyStaysAcyclic ==
    \A t \in DOMAIN tags :
        /\ tags[t].parentId # t
        /\ TagReachesRoot(tags, t, Cardinality(DOMAIN tags))

(***************************************************************************)
(* The mutations of several statements.                                    *)
(***************************************************************************)
\* updateTags(fileId, tagIds) of FileRepository: one transaction of
\* DELETE FROM file_tags WHERE file_id = ? and an INSERT for each tag id
FileUpdateTagsOp(d, fileId, tagIds) ==
    LET r == Transaction(d,
                 <<[k |-> "delFileTags", s |-> fileId, ts |-> GetFileTagIds(d, fileId)]>>
                 \o [i \in 1..Len(tagIds) |->
                        [k |-> "insFileTag", s |-> fileId, t |-> tagIds[i]]])
    IN  Result(IF r.ok THEN "ok" ELSE "persistence", r.db, fileId)

\* updateTags(folderId, tagIds) of FolderRepository
FolderUpdateTagsOp(d, folderId, tagIds) ==
    LET r == Transaction(d,
                 <<[k |-> "delFolderTags", s |-> folderId,
                    ts |-> GetFolderTagIds(d, folderId)]>>
                 \o [i \in 1..Len(tagIds) |->
                        [k |-> "insFolderTag", s |-> folderId, t |-> tagIds[i]]])
    IN  Result(IF r.ok THEN "ok" ELSE "persistence", r.db, folderId)

\* bulkCreate(inputs): TagFactory.create and validate for each input, the
\* first invalid one throws; then one transaction of the INSERTs
TagRepoBulkCreate(d, inputs) ==
    LET rows == [i \in 1..Len(inputs) |-> TagFactoryCreate(inputs[i])]
        base == Cardinality(DOMAIN d.tags)
        r == Transaction(d, [i \in 1..Len(rows) |->
                               [k |-> "insTag", id |-> TagId(base + i), row |-> rows[i]]])
    IN  IF \E i \in 1..Len(rows) : ~TagValidate(rows[i])
        THEN Result("validation", d, Null)
        ELSE Result(IF r.ok THEN "ok" ELSE "persistence", r.db, Null)

MaxTaggedFolders == 2

\* createFolder({name, parentId, tagIds})
CreateTaggedFolder(names) ==
    \E name \in names, parentId \in DOMAIN folders \cup {Null}, tagIds \in TagIdLists :
        LET r == CreateFolderOp(DB, [name |-> name, parentId |-> parentId,
                                     type |-> "regular", tagIds |-> tagIds])
        IN  /\ r.err = "ok" => Cardinality(DOMAIN folders) < MaxTaggedFolders
            /\ SetDB(r.db)
            /\ last' = Call("createTaggedFolder", r.id, parentId, tagIds, FALSE, r.err)

\* createFile({name, folderId, tagIds})
CreateTaggedFile(names) ==
    \E name \in names, folderId \in DOMAIN folders \cup {Null}, tagIds \in TagIdLists :
        LET r == CreateFileOp(DB, [name |-> name, folderId |-> folderId,
                                   tagIds |-> tagIds])
        IN  /\ r.err = "ok" => Cardinality(DOMAIN files) < MaxFiles
            /\ SetDB(r.db)
            /\ last' = Call("createTaggedFile", r.id, folderId, tagIds, FALSE, r.err)

\* FileRepository.updateTags(fileId, tagIds)
FileUpdateTags ==
    \E fileId \in AnyFileIds, tagIds \in TagIdLists :
        LET r == FileUpdateTagsOp(DB, fileId, tagIds)
        IN  /\ SetDB(r.db)
            /\ last' = Call("fileUpdateTags", fileId, Null, tagIds, FALSE, r.err)

\* FolderRepository.updateTags(folderId, tagIds)
FolderUpdateTags ==
    \E folderId \in AnyFolderIds, tagIds \in TagIdLists :
        LET r == FolderUpdateTagsOp(DB, folderId, tagIds)
        IN  /\ SetDB(r.db)
            /\ last' = Call("folderUpdateTags", folderId, Null, tagIds, FALSE, r.err)

\* The lists of one or two tag inputs with a name of names.
TagInputLists(names) ==
    UNION {[1..n -> [name : names, type : {"user"}]] : n \in 1..MaxTags}

\* TagRepository.bulkCreate(inputs)
BulkCreateTags(names) ==
    \E inputs \in TagInputLists(names) :
        LET r == TagRepoBulkCreate(DB, inputs)
        IN  /\ r.err = "ok" => Cardinality(DOMAIN tags) + Len(inputs) <= MaxTags
            /\ SetDB(r.db)
            /\ last' = Call("bulkCreateTags", Null, Null,
                            [i \in 1..Len(inputs) |-> inputs[i].name], FALSE, r.err)

NextAtomic ==
    \/ CreateTaggedFolder({NameA})
    \/ CreateTaggedFile({NameA})
    \/ FileUpdateTags
    \/ FolderUpdateTags
    \/ AssignTagsToFile
    \/ AssignTagsToFolder
    \/ BulkCreateTags({NameA, NameSpA, <<>>})
    \/ CreateHierarchy

\* The mutations that run several statements in one transaction, from the
\* empty store.
SpecAtomic == Init /\ [][NextAtomic]_vars

\* C18: every multi-statement mutation is all-or-nothing: when folder or
\* file create with tagIds, updateTags, assignTagsToFile/Folder, bulkCreate
\* or createHierarchy ends with an error, the store - primary rows, relation
\* rows and usageCounts - is exactly as it was before the call.
C18_AllOrNothing ==
    [][last'.err # "ok" => DB' = DB]_vars

\* updateTags of a file that holds a tag has just failed on its second
\* INSERT, after the DELETE and the first INSERT had run.
C18_Witness ==
    /\ last.op = "fileUpdateTags"
    /\ last.err = "persistence"
    /\ Len(last.str) = 2
    /\ last.str[1] \in DOMAIN tags
    /\ last.str[2] = TagId(0)
    /\ GetFileTagIds(DB, last.id) # {}
    /\ \E t \in GetFileTagIds(DB, last.id) : tags[t].usageCount = 1

(***************************************************************************)
(* Folders re-parented through the repository and through the service.     *)
(***************************************************************************)
\* FolderRepository.update(id, {parentId})
UpdateFolderParent ==
    \E folderId \in DOMAIN folders, parentId \in DOMAIN folders :
        LET r == FolderRepoUpdate(DB, folderId, [parentId |-> parentId])
        IN  /\ SetDB(r.db)
            /\ last' = Call("updateFolderParent", folderId, parentId, <<>>, FALSE, r.err)

NextReparent ==
    \/ CreateFolder({NameA}, {"regular"})
    \/ UpdateFolderParent
    \/ MoveFolder

\* Folders created, and given a parent by update and by moveFolder.
SpecReparent == Init /\ [][NextReparent]_vars

\* C19: no folder ever has parentId equal to its own id: every attempt to
\* set a folder's parent to itself - FolderRepository.update(id, {parentId:
\* id}), FolderService.moveFolder(id, id) - fails and leaves the folder
\* unchanged.
C19_NoFolderIsOwnParent ==
    \A f \in DOMAIN folders : folders[f].parentId # f

(***************************************************************************)
(* getPopularTags.                                                         *)
(***************************************************************************)
\* The characters of the names used, in the order of their codes: ORDER BY
\* name compares with the BINARY collation.
Alphabet == <<" ", "1", "2", "3", "a", "b", "t", "x">>

CharRank(c) == CHOOSE i \in 1..Len(Alphabet) : Alphabet[i] = c

\* name1 < name2 as SQLite compares two TEXT values
RECURSIVE NameLess(_, _)
NameLess(a, b) ==
    IF a = <<>> THEN b # <<>>
    ELSE IF b = <<>> THEN FALSE
    ELSE IF Head(a) = Head(b) THEN NameLess(Tail(a), Tail(b))
    ELSE CharRank(Head(a)) < CharRank(Head(b))

\* total_usage: the file_tags rows plus the folder_tags rows of the tag
TotalUsage(d, t) == GetTagUsageCount(d, t)

\* ORDER BY total_usage DESC, t.name DESC
PopularBeforeNameDesc(d, a, b) ==
    \/ TotalUsage(d, a) > TotalUsage(d, b)
    \/ TotalUsage(d, a) = TotalUsage(d, b) /\ NameLess(d.tags[b].name, d.tags[a].name)

\* ORDER BY total_usage DESC, t.name ASC
PopularBefore(d, a, b) ==
    \/ TotalUsage(d, a) > TotalUsage(d, b)
    \/ TotalUsage(d, a) = TotalUsage(d, b) /\ NameLess(d.tags[a].name, d.tags[b].name)

\* The first limit tags of ts in the order of the query.
RECURSIVE PopularRows(_, _, _)
PopularRows(d, ts, limit) ==
    IF ts = {} \/ limit = 0 THEN <<>>
    ELSE LET first == CHOOSE a \in ts : \A b \in ts \ {a} : PopularBefore(d, a, b)
         IN  <<first>> \o PopularRows(d, ts \ {first}, limit - 1)

\* rows.reduce((sum, row) => sum + row.total_usage, 0)
RECURSIVE SumUsage(_, _)
SumUsage(d, rows) ==
    IF rows = <<>> THEN 0 ELSE TotalUsage(d, Head(rows)) + SumUsage(d, Tail(rows))

\* getPopularTags(limit): the rows of the query, each with totalUsage and
\* usagePercentage = (total_usage / totalAssignments) * 100, kept as the
\* fraction num / den, or 0 when totalAssignments is 0
GetPopularTags(d, limit) ==
    LET rows == PopularRows(d, {t \in DOMAIN d.tags : d.tags[t].isActive}, limit)
        totalAssignments == SumUsage(d, rows)
    IN  [i \in 1..Len(rows) |->
            [tag |-> rows[i],
             totalUsage |-> TotalUsage(d, rows[i]),
             usagePercentage |->
                 IF totalAssignments > 0
                 THEN [num |-> TotalUsage(d, rows[i]) * 100, den |-> totalAssignments]
                 ELSE [num |-> 0, den |-> 1]]]

\* getPopularTags(limit), a read: the store stays and the call keeps what
\* it returned.
PopularTags ==
    \E limit \in 0..(MaxTags + 1) :
        /\ SetDB(DB)
        /\ last' = CallWithPre("getPopularTags", Null, Null, GetPopularTags(DB, limit),
                               FALSE, "ok", [limit |-> limit])

NextPopular ==
    \/ AssignTagsToFile
    \/ AssignTagsToFolder
    \/ RenameTag({NameA})
    \/ RepoDeleteTag
    \/ PopularTags

\* Tags assigned, renamed and deleted, and the popular tags read.
SpecPopular == InitAssign /\ [][NextPopular]_vars

\* C21: getPopularTags(limit) returns at most limit active tags, ordered by
\* total usage (file_tags rows plus folder_tags rows) descending with ties
\* broken by name ascending, no tag left out coming before a returned one,
\* and each returned tag's usagePercentage is 100 * its total usage / the
\* sum of total usage over the returned tags (0 when that sum is 0).
C21_PopularTagsRanked ==
    last.op = "getPopularTags" =>
        LET rows == last.str
            returned == {rows[i].tag : i \in 1..Len(rows)}
            active == {t \in DOMAIN tags : tags[t].isActive}
            total == SumUsage(DB, [i \in 1..Len(rows) |-> rows[i].tag])
            Ranked(a, b) ==
                \/ AssignmentRows(a) > AssignmentRows(b)
                \/ /\ AssignmentRows(a) = AssignmentRows(b)
                   /\ NameLess(tags[a].name, tags[b].name)
        IN  /\ Len(rows) <= last.pre.limit
            /\ Cardinality(returned) = Len(rows)
            /\ returned \subseteq active
            /\ Len(rows) < last.pre.limit => returned = active
            /\ \A i, j \in 1..Len(rows) : i < j => Ranked(rows[i].tag, rows[j].tag)
            /\ \A i \in 1..Len(rows) :
                  /\ \A t \in active \ returned : Ranked(rows[i].tag, t)
                  /\ rows[i].totalUsage = AssignmentRows(rows[i].tag)
                  /\ IF total = 0 THEN rows[i].usagePercentage.num = 0
                     ELSE rows[i].usagePercentage.num * total
                            = 100 * AssignmentRows(rows[i].tag) * rows[i].usagePercentage.den

\* getPopularTags(1) has just returned t2 alone, with 100 percent: t1 and t2
\* are both active and used equally, and t2 has the smaller name.
C21_Witness ==
    /\ last.op = "getPopularTags"
    /\ last.pre.limit = 1
    /\ tags[TagId(1)].isActive
    /\ tags[TagId(2)].isActive
    /\ AssignmentRows(TagId(1)) = AssignmentRows(TagId(2))
    /\ AssignmentRows(TagId(1)) > 0
    /\ tags[TagId(2)].name = NameA
    /\ Len(last.str) = 1
    /\ last.str[1].tag = TagId(2)
    /\ last.str[1].usagePercentage.num = 100 * last.str[1].usagePercentage.den

(***************************************************************************)
(* Model objects in memory: FolderModel, its clone and its mutators.  A    *)
(* model's data holds name and viewMode by value and tagIds as a reference *)
(* to an array; mem.arrays gives each referenced array's elements.         *)
(* updateViewSettings always assigns a fresh viewSettings object, so that  *)
(* object is never changed in place and is kept by value.                  *)
(***************************************************************************)
ModelNames == {"m", "c"}
ViewModes == {"list", "grid"}

\* The arrays some model points to.
LiveArrays(models) == {models[x].tagIds : x \in DOMAIN models}

\* mem with models, keeping the arrays still pointed to.
WithModels(mm, models, arrays) ==
    [models |-> models,
     arrays |-> [r \in LiveArrays(models) |-> arrays[r]]]

\* A reference no model other than x points to: a new array.
NewArray(mm, x) ==
    LET used == {mm.models[y].tagIds : y \in DOMAIN mm.models \ {x}}
    IN  CHOOSE r \in 1..(Cardinality(used) + 1) : r \notin used

\* this.data.tagIds = elems, a new array
AssignTagIds(mm, x, elems) ==
    LET r == NewArray(mm, x)
        data == IF x \in DOMAIN mm.models
                THEN [mm.models[x] EXCEPT !.tagIds = r]
                ELSE [name |-> <<>>, viewMode |-> "list", tagIds |-> r]
    IN  WithModels(mm, Put(mm.models, x, data), Put(mm.arrays, r, elems))

\* new FolderModel(FolderFactory.create({name, tagIds})) kept as x
ModelCreate(mm, x, name, tagIds) ==
    LET a == AssignTagIds(mm, x, tagIds)
    IN  [a EXCEPT !.models[x].name = Trim(name), !.models[x].viewMode = "list"]

\* clone(): new FolderModel({ ...this.data }), and the constructor's
\* this.data = { ...data }: every field copied, tagIds as the reference
ModelClone(mm, src, dst) ==
    WithModels(mm, Put(mm.models, dst, mm.models[src]), mm.arrays)

\* addTag(tagId): this.data.tagIds.push(tagId) unless included
ModelAddTag(mm, x, tagId) ==
    LET r == mm.models[x].tagIds
    IN  IF tagId \in Range(mm.arrays[r]) THEN mm
        ELSE [mm EXCEPT !.arrays[r] = Append(@, tagId)]

\* removeTag(tagId): this.data.tagIds.splice(index, 1)
ModelRemoveTag(mm, x, tagId) ==
    LET r == mm.models[x].tagIds
        Kept(t) == t # tagId
    IN  [mm EXCEPT !.arrays[r] = SelectSeq(@, Kept)]

\* setTags(tagIds): this.data.tagIds = [...tagIds]
ModelSetTags(mm, x, tagIds) == AssignTagIds(mm, x, tagIds)

\* updateViewSettings({viewMode})
ModelUpdateViewSettings(mm, x, viewMode) ==
    [mm EXCEPT !.models[x].viewMode = viewMode]

\* setName(name): throws on a blank name
ModelSetName(mm, x, name) ==
    IF Trim(name) = <<>> THEN mm ELSE [mm EXCEPT !.models[x].name = Trim(name)]

\* toJSON(), tagIds, viewSettings: what can be observed on model x
ToJSON(mm, x) ==
    [name |-> mm.models[x].name,
     viewMode |-> mm.models[x].viewMode,
     tagIds |-> mm.arrays[mm.models[x].tagIds]]

\* A step on the model objects: the store and the calls in flight stay.
SetMem(mm, op, x) ==
    /\ mem' = mm
    /\ last' = Call(op, x, Null, <<>>, FALSE, "ok")
    /\ UNCHANGED <<folders, files, tags, fileTags, folderTags, tasks>>

\* The tag id lists without repetition a model is given.
ModelTagIdLists == {<<>>, <<TagId(1)>>, <<TagId(2)>>, <<TagId(1), TagId(2)>>}

\* m = FolderFactory.create(input)
CreateModel ==
    /\ "m" \notin DOMAIN mem.models
    /\ \E tagIds \in ModelTagIdLists :
           SetMem(ModelCreate(mem, "m", NameA, tagIds), "createModel", "m")

\* c = m.clone()
CloneModel ==
    /\ "m" \in DOMAIN mem.models
    /\ SetMem(ModelClone(mem, "m", "c"), "clone", "c")

\* A mutator called on m or on c.
MutateModel ==
    \E x \in DOMAIN mem.models :
        \/ \E t \in {TagId(1), TagId(2)} :
               \/ SetMem(ModelAddTag(mem, x, t), "addTag", x)
               \/ SetMem(ModelRemoveTag(mem, x, t), "removeTag", x)
        \/ \E tagIds \in ModelTagIdLists :
               SetMem(ModelSetTags(mem, x, tagIds), "setTags", x)
        \/ \E v \in ViewModes :
               SetMem(ModelUpdateViewSettings(mem, x, v), "updateViewSettings", x)
        \/ \E name \in {NameA, NameB} :
               SetMem(ModelSetName(mem, x, name), "setName", x)

NextClone ==
    \/ CreateModel
    \/ CloneModel
    \/ MutateModel

\* A folder model created, cloned, and the two mutated.
SpecClone == Init /\ [][NextClone]_vars

\* C22: clone() yields an independent copy: a mutator applied to the clone
\* leaves everything observable on the original unchanged, and a mutator
\* applied to the original leaves the clone unchanged.
C22_CloneIsIndependent ==
    [][\A y \in DOMAIN mem.models :
          (/\ last'.op \in {"addTag", "removeTag", "setTags",
                            "updateViewSettings", "setName"}
           /\ last'.id # y)
              => ToJSON(mem', y) = ToJSON(mem, y)]_vars

(***************************************************************************)
(* FolderService calls from several tasks.  A call in flight is a record   *)
(* in tasks: its arguments, the await it is suspended at (pc) and the      *)
(* values it has read so far.  One step runs the awaited statement of the  *)
(* repository and the synchronous code up to the next await; nothing       *)
(* holds the store between two steps of a call.                            *)
(***************************************************************************)
MaxTasks == 2
TaskIds == 1..MaxTasks

NameX == <<"x">>

\* tasks without task i
DropTask(ts, i) == [k \in DOMAIN ts \ {i} |-> ts[k]]

\* Task i moves on to its next await; the store is as it was.
Suspend(i, t) ==
    /\ tasks' = Put(tasks, i, t)
    /\ UNCHANGED <<folders, files, tags, fileTags, folderTags, mem, last>>

\* Task i's call returns or throws: the store is d from now on.
Complete(i, d, err) ==
    /\ SetStore(d)
    /\ tasks' = DropTask(tasks, i)
    /\ last' = Call(tasks[i].op, tasks[i].id, tasks[i].to, tasks[i].name,
                    tasks[i].force, err)
    /\ UNCHANGED mem

\* A call just made: op(id, to, ...), suspended at pc.
Task(op, id, to, name, force, pc, cur) ==
    [op |-> op, id |-> id, to |-> to, name |-> name, force |-> force,
     pc |-> pc, cur |-> cur]

At(i, op, pc) == i \in DOMAIN tasks /\ tasks[i].op = op /\ tasks[i].pc = pc

\* moveFolder(folderId, newParentId) is called from a task with no call in
\* flight.
MoveFolderBegin ==
    \E i \in TaskIds \ DOMAIN tasks :
    \E folderId \in DOMAIN folders, newParentId \in DOMAIN folders \cup {Null} :
        LET t == Task("moveFolder", folderId, newParentId, <<>>, FALSE, "find", Null)
        IN  /\ tasks' = Put(tasks, i, t)
            /\ UNCHANGED <<folders, files, tags, fileTags, folderTags, mem, last>>

\* folderRepo.findById(folderId), and the first test of the loop of
\* validateNotDescendant
MoveFolderFind ==
    \E i \in TaskIds :
        /\ At(i, "moveFolder", "find")
        /\ LET t == tasks[i]
           IN  IF ~FolderFound(DB, t.id) THEN Complete(i, DB, "notFound")
               ELSE LET u == [t EXCEPT !.name = folders[t.id].name]
                    IN  IF t.to = Null THEN Suspend(i, [u EXCEPT !.pc = "unique"])
                        ELSE IF t.to = t.id THEN Complete(i, DB, "cycle")
                        ELSE Suspend(i, [u EXCEPT !.pc = "walk", !.cur = t.to])

\* validateNotDescendant: one turn of the loop, folderRepo.findById(currentId)
MoveFolderWalk ==
    \E i \in TaskIds :
        /\ At(i, "moveFolder", "walk")
        /\ LET t == tasks[i]
               next == folders[t.cur].parentId
           IN  IF ~FolderFound(DB, t.cur) \/ next = Null
               THEN Suspend(i, [t EXCEPT !.pc = "parent", !.cur = Null])
               ELSE IF next = t.id THEN Complete(i, DB, "cycle")
               ELSE Suspend(i, [t EXCEPT !.cur = next])

\* validateParentFolder: folderRepo.findById(newParentId)
MoveFolderParent ==
    \E i \in TaskIds :
        /\ At(i, "moveFolder", "parent")
        /\ IF ~ValidateParentFolder(DB, tasks[i].to)
           THEN Complete(i, DB, "parentNotFound")
           ELSE Suspend(i, [tasks[i] EXCEPT !.pc = "unique"])

\* validateUniqueFolderName: the read of the siblings
MoveFolderUnique ==
    \E i \in TaskIds :
        /\ At(i, "moveFolder", "unique")
        /\ LET t == tasks[i]
           IN  IF ~ValidateUniqueFolderName(DB, t.name, t.to, t.id)
               THEN Complete(i, DB, "duplicate")
               ELSE Suspend(i, [t EXCEPT !.pc = "write"])

\* folderRepo.update(folderId, updateData)
MoveFolderWrite ==
    \E i \in TaskIds :
        /\ At(i, "moveFolder", "write")
        /\ LET t == tasks[i]
               r == FolderRepoUpdate(DB, t.id, IF t.to # Null
                                               THEN [parentId |-> t.to]
                                               ELSE EmptyPatch)
           IN  Complete(i, r.db, r.err)

\* Three root folders "a", "b" and "x".
ThreeFolderStore ==
    CreateFolderOp(TwoFolderStore,
                   [name |-> NameX, parentId |-> Null, type |-> "regular",
                    tagIds |-> <<>>]).db

InitMoves ==
    /\ folders = ThreeFolderStore.folders
    /\ files = ThreeFolderStore.files
    /\ tags = ThreeFolderStore.tags
    /\ fileTags = ThreeFolderStore.fileTags
    /\ folderTags = ThreeFolderStore.folderTags
    /\ last = NoCall
    /\ mem = NoModels
    /\ tasks = NoTasks

NextMoves ==
    \/ MoveFolderBegin
    \/ MoveFolderFind
    \/ MoveFolderWalk
    \/ MoveFolderParent
    \/ MoveFolderUnique
    \/ MoveFolderWrite

\* moveFolder calls of up to MaxTasks tasks interleaved at their awaits,
\* on three live root folders.
SpecMoves == InitMoves /\ [][NextMoves]_vars

\* No folder is met again when following the stored parentId links up
\* from it.
FolderParentsAcyclic ==
    \A f \in DOMAIN folders :
        /\ folders[f].parentId # f
        /\ f \notin Ancestors(folders, f)

\* C23: the folder parent relation stays acyclic when moveFolder calls from
\* several tasks interleave at their awaits: once every call has completed,
\* no folder is its own ancestor.
C23_ConcurrentMovesStayAcyclic ==
    tasks = NoTasks => FolderParentsAcyclic

(***************************************************************************)
(* FolderService.getFolderPath.                                            *)
(***************************************************************************)
\* The loop of getFolderPath from currentId with path collected so far:
\* [err |-> "ok", path] when it ends at a parentless or unfound folder, and
\* err "diverges" when it comes back to a folder it has read (the while
\* loop then never ends, and path grows without bound).
RECURSIVE PathWalk(_, _, _, _)
PathWalk(d, currentId, path, visited) ==
    IF currentId = Null THEN [err |-> "ok", path |-> path]
    ELSE IF currentId \in visited THEN [err |-> "diverges", path |-> path]
    ELSE IF ~FolderFound(d, currentId) THEN [err |-> "ok", path |-> path]
    ELSE PathWalk(d, d.folders[currentId].parentId,
                  <<d.folders[currentId].name>> \o path,
                  visited \cup {currentId})

\* getFolderPath(folderId)
GetFolderPathOp(d, folderId) == PathWalk(d, folderId, <<>>, {})

GetFolderPath ==
    \E folderId \in DOMAIN folders :
        LET r == GetFolderPathOp(DB, folderId)
        IN  /\ SetDB(DB)
            /\ last' = CallWithPre("getFolderPath", folderId, Null, <<>>, FALSE,
                                   r.err, [path |-> r.path])

NextWalks ==
    \/ CreateFolder({NameA}, {"regular"})
    \/ UpdateFolderParent
    \/ MoveFolder
    \/ DeleteFolder
    \/ GetFolderPath

\* Folders created, reparented through the repository and the service and
\* deleted, and the ancestor walks run on the store so reached.
SpecWalks == Init /\ [][NextWalks]_vars

\* C24: the ancestor walks terminate in every reachable store state: the
\* cycle check of moveFolder and getFolderPath each visit a folder at most
\* once and stop at a parentless folder, at a missing or soft-deleted
\* ancestor row, or on meeting the folder being moved.
C24_AncestorWalksTerminate ==
    last.op \in {"moveFolder", "getFolderPath"} => last.err # "diverges"

(***************************************************************************)
(* FolderService.getSubfolders.                                            *)
(***************************************************************************)
\* getSubfolders(parentId): findByFolderId(parentId), or findAll({parentId:
\* null}) when no parentId is given
GetSubfoldersOp(d, parentId) ==
    IF parentId # Null THEN FolderFindByFolderId(d, parentId)
    ELSE FolderFindAll(d, Null)

GetSubfolders ==
    \E parentId \in DOMAIN folders \cup {Null} :
        /\ SetDB(DB)
        /\ last' = CallWithPre("getSubfolders", Null, parentId, <<>>, FALSE, "ok",
                               [rows |-> GetSubfoldersOp(DB, parentId)])

NextRoot ==
    \/ CreateFolder({NameA, NameB}, {"regular"})
    \/ MoveFolder
    \/ RenameFolder({NameB})
    \/ DeleteFolder
    \/ GetSubfolders

\* Folders created at root level and under a parent, moved, renamed and
\* deleted, and the subfolders of a folder and of the root level listed.
SpecRoot == Init /\ [][NextRoot]_vars

\* The non-deleted folders that have no parent.
LiveRootFolders ==
    {f \in DOMAIN folders :
        folders[f].status # "deleted" /\ folders[f].parentId = Null}

\* C25: the sibling set of the root level is exactly the non-deleted
\* folders that have no parent: getSubfolders() without a parentId returns
\* exactly those, and a createFolder, renameFolder or moveFolder at root
\* level is rejected as duplicate only when another parentless folder has
\* that name.
C25_RootSiblingsAreParentless ==
    /\ (last.op = "getSubfolders" /\ last.to = Null)
           => last.pre.rows = LiveRootFolders
    /\ (last.op = "createFolder" /\ last.to = Null /\ last.err = "duplicate")
           => \E f \in LiveRootFolders : folders[f].name = last.str
    /\ (/\ last.op = "renameFolder" /\ last.err = "duplicate"
        /\ folders[last.id].parentId = Null)
           => \E f \in LiveRootFolders \ {last.id} : folders[f].name = last.str
    /\ (last.op = "moveFolder" /\ last.to = Null /\ last.err = "duplicate")
           => \E f \in LiveRootFolders \ {last.id} :
                  folders[f].name = folders[last.id].name

(***************************************************************************)
(* FolderModel.setParent, updatePath and getDepthLevel on a model object.  *)
(***************************************************************************)
\* s.split('/').length: one more than the number of '/' in s
RECURSIVE SegmentCount(_)
SegmentCount(s) ==
    IF s = <<>> THEN 1
    ELSE SegmentCount(Tail(s)) + (IF Head(s) = "/" THEN 1 ELSE 0)

\* A parentPath argument that is not given (undefined): told apart from
\* every path, which is a sequence of characters.
NoPath == <<"undefined">>

\* updatePath(parentPath): the empty string is falsy as undefined is
FolderUpdatePath(row, parentPath) ==
    [row EXCEPT !.path = IF row.parentId # Null /\ parentPath # NoPath
                            /\ parentPath # <<>>
                         THEN Slash(parentPath, row.name)
                         ELSE row.name]

\* setParent(parentId, parentPath): [ok, row]; it throws when parentId is
\* the folder's own id.
FolderSetParent(row, parentId, parentPath) ==
    IF parentId = row.id THEN [ok |-> FALSE, row |-> row]
    ELSE LET set == IF parentId # Null
                    THEN [row EXCEPT
                            !.parentId = parentId,
                            !.level = (IF parentPath # NoPath
                                       THEN SegmentCount(parentPath) ELSE 0) + 1]
                    ELSE [row EXCEPT !.parentId = Null, !.level = 0]
         IN  [ok |-> TRUE, row |-> FolderUpdatePath(set, parentPath)]

\* setName(name): [ok, row]; it throws on a blank name, and calls
\* updatePath() with no parentPath.
FolderSetName(row, name) ==
    IF Trim(name) = <<>> THEN [ok |-> FALSE, row |-> row]
    ELSE [ok |-> TRUE,
          row |-> FolderUpdatePath([row EXCEPT !.name = Trim(name)], NoPath)]

\* getDepthLevel()
GetDepthLevel(row) == SegmentCount(row.path) - 1

\* The paths of a parent at level 0, 1 and 2, and no path given.
ParentPaths ==
    {NameA, Slash(NameA, NameB), Slash(Slash(NameA, NameB), NameX), NoPath}

\* The folder model object of this section: the data of model "m".
TheFolder == mem.models["m"]

SetFolder(row, op, to, str, ok, pre) ==
    /\ mem' = [mem EXCEPT !.models = Put(@, "m", row)]
    /\ last' = CallWithPre(op, row.id, to, str, FALSE,
                           IF ok THEN "ok" ELSE "throws", pre)
    /\ UNCHANGED <<folders, files, tags, fileTags, folderTags, tasks>>

\* m = FolderFactory.create({name}), with the id generateId gave it
CreateFolderModel ==
    /\ "m" \notin DOMAIN mem.models
    /\ \E name \in {NameA, NameSpA, NameB} :
           LET row == FolderFactoryCreate([name |-> name, parentId |-> Null,
                                           type |-> "regular", tagIds |-> <<>>])
               data == [f \in DOMAIN row \cup {"id"} |->
                           IF f = "id" THEN FolderId(1) ELSE row[f]]
           IN  SetFolder(data, "createModel", Null, name, TRUE, <<>>)

\* m.setParent(parentId, parentPath)
SetParent ==
    /\ "m" \in DOMAIN mem.models
    /\ \E parentId \in {FolderId(1), FolderId(2), FolderId(3), Null},
          parentPath \in ParentPaths :
           LET r == FolderSetParent(TheFolder, parentId, parentPath)
           IN  SetFolder(r.row, "setParent", parentId, <<>>, r.ok,
                         [parentPath |-> parentPath])

\* m.setName(name)
SetName ==
    /\ "m" \in DOMAIN mem.models
    /\ \E name \in {NameA, NameB, <<" ">>} :
           LET r == FolderSetName(TheFolder, name)
           IN  SetFolder(r.row, "setName", Null, name, r.ok, <<>>)

NextSetParent ==
    \/ CreateFolderModel
    \/ SetParent
    \/ SetName

\* One folder model created, given a parent and renamed.
SpecSetParent == Init /\ [][NextSetParent]_vars

\* C26: after setParent(parentId, parentPath) with parentPath the parent's
\* path of k segments, the folder's level is k and equals getDepthLevel(),
\* and its path is parentPath + '/' + name; after setParent(undefined) the
\* level is 0 and the path is the bare name.
C26_SetParentLevelAndPath ==
    (last.op = "setParent" /\ last.err = "ok")
        => IF last.to # Null /\ last.pre.parentPath # NoPath
           THEN /\ TheFolder.level = SegmentCount(last.pre.parentPath)
                /\ TheFolder.level = GetDepthLevel(TheFolder)
                /\ TheFolder.path = Slash(last.pre.parentPath, TheFolder.name)
           ELSE last.to = Null
                    => TheFolder.level = 0 /\ TheFolder.path = TheFolder.name

\* C27: after a successful moveFolder(F, P) the stored parentId of F is P:
\* for P non-null F is listed among P's subfolders and no longer among its
\* former parent's; for P = null F has no parent, is listed at root level
\* and is no longer a subfolder of its former parent.
C27_MoveSetsParent ==
    [][(last'.op = "moveFolder" /\ last'.err = "ok")
          => LET F == last'.id
                 P == last'.to
                 former == folders[F].parentId
             IN  /\ folders'[F].parentId = P
                 /\ F \in GetSubfoldersOp(DB', P)
                 /\ (former # Null /\ former # P)
                        => F \notin GetSubfoldersOp(DB', former)]_vars

(***************************************************************************)
(* Soft-deleted rows and the calls addressed to them.                      *)
(***************************************************************************)
\* FolderRepository.update(id, patch)
UpdateFolder(patches) ==
    \E folderId \in DOMAIN folders, patch \in patches :
        LET r == FolderRepoUpdate(DB, folderId, patch)
        IN  /\ SetDB(r.db)
            /\ last' = CallWithPre("updateFolder", folderId, Null, <<>>, FALSE,
                                   r.err, [patch |-> patch])

\* FileRepository.update(id, patch)
UpdateFile(patches) ==
    \E fileId \in DOMAIN files, patch \in patches :
        LET r == FileRepoUpdate(DB, fileId, patch)
        IN  /\ SetDB(r.db)
            /\ last' = CallWithPre("updateFile", fileId, Null, <<>>, FALSE,
                                   r.err, [patch |-> patch])

\* TagRepository.update(id, patch)
UpdateTag(patches) ==
    \E tagId \in DOMAIN tags, patch \in patches :
        LET r == TagRepoUpdate(DB, tagId, patch)
        IN  /\ SetDB(r.db)
            /\ last' = CallWithPre("updateTag", tagId, Null, <<>>, FALSE,
                                   r.err, [patch |-> patch])

\* assignTagsToFile(fileId, [tagId])
AssignTagToFile ==
    \E fileId \in DOMAIN files, tagId \in DOMAIN tags :
        LET r == AssignTagsToFileOp(DB, fileId, <<tagId>>)
        IN  /\ SetDB(r.db)
            /\ last' = Call("assignTagToFile", fileId, tagId, <<>>, FALSE, r.err)

\* A store of two root folders "a" and "b", a file in the first, and a tag.
DeletableStore ==
    CreateTagOp(
        CreateFileOp(TwoFolderStore,
                     [name |-> NameA, folderId |-> FolderId(1),
                      tagIds |-> <<>>]).db,
        [name |-> NameA, type |-> "user"]).db

InitAbsorb ==
    /\ folders = DeletableStore.folders
    /\ files = DeletableStore.files
    /\ tags = DeletableStore.tags
    /\ fileTags = DeletableStore.fileTags
    /\ folderTags = DeletableStore.folderTags
    /\ last = NoCall
    /\ mem = NoModels
    /\ tasks = NoTasks

NextAbsorb ==
    \/ DeleteFolder
    \/ DeleteFile
    \/ DeleteTag
    \/ RepoDeleteTag
    \/ UpdateFolder({[status |-> "active"]})
    \/ MoveFolder
    \/ RenameFolder({NameX})
    \/ UpdateFile({[status |-> "active"], [name |-> NameX]})
    \/ MoveFile
    \/ UpdateTag({[isActive |-> TRUE]})
    \/ RenameTag({NameX})
    \/ AssignTagToFile
    \/ CleanupUnusedTags
    \/ RepoCleanupUnusedTags

\* Folders, a file and tags deleted, and then updated, moved, renamed,
\* deleted again, assigned and cleaned up.
SpecAbsorb == InitAbsorb /\ [][NextAbsorb]_vars

\* C28: soft deletion is absorbing: a folder or file with status 'deleted'
\* and a tag with isActive = false stay so under every operation, and every
\* update, move or rename addressed to one fails with not-found.
C28_SoftDeletionAbsorbing ==
    [][/\ \A f \in DOMAIN folders :
              folders[f].status = "deleted" => folders'[f].status = "deleted"
       /\ \A x \in DOMAIN files :
              files[x].status = "deleted" => files'[x].status = "deleted"
       /\ \A t \in DOMAIN tags : ~tags[t].isActive => ~tags'[t].isActive
       /\ (/\ last'.op \in {"updateFolder", "moveFolder", "renameFolder"}
           /\ folders[last'.id].status = "deleted")
              => last'.err = "notFound"
       /\ (/\ last'.op \in {"updateFile", "moveFile"}
           /\ files[last'.id].status = "deleted")
              => last'.err = "notFound"
       /\ (/\ last'.op \in {"updateTag", "renameTag"}
           /\ ~tags[last'.id].isActive)
              => last'.err = "notFound"]_vars

\* An update to status 'active' has been addressed to a deleted folder and
\* has failed, in a store that also holds a deleted file and an inactive tag.
C28_Witness ==
    /\ last.op = "updateFolder"
    /\ last.pre.patch = [status |-> "active"]
    /\ last.err = "notFound"
    /\ folders[last.id].status = "deleted"
    /\ \E x \in DOMAIN files : files[x].status = "deleted"
    /\ \E t \in DOMAIN tags : ~tags[t].isActive

(***************************************************************************)
(* deleteFolder and createFile as calls in flight.                         *)
(***************************************************************************)
\* deleteFolder(folderId, force) is called from a task with no call in
\* flight.
DeleteFolderBegin ==
    \E i \in TaskIds \ DOMAIN tasks :
    \E folderId \in DOMAIN folders, force \in BOOLEAN :
        Suspend(i, Task("deleteFolder", folderId, Null, <<>>, force, "find", Null))

\* folderRepo.findById(folderId)
DeleteFolderFind ==
    \E i \in TaskIds :
        /\ At(i, "deleteFolder", "find")
        /\ LET t == tasks[i]
           IN  IF ~FolderFound(DB, t.id) THEN Complete(i, DB, "notFound")
               ELSE Suspend(i, [t EXCEPT !.pc = IF t.force THEN "write" ELSE "check"])

\* validateFolderEmpty: the two reads of getFolderContentCount
DeleteFolderCheck ==
    \E i \in TaskIds :
        /\ At(i, "deleteFolder", "check")
        /\ IF ~ValidateFolderEmpty(DB, tasks[i].id) THEN Complete(i, DB, "nonEmpty")
           ELSE Suspend(i, [tasks[i] EXCEPT !.pc = "write"])

\* folderRepo.update(folderId, {status: 'deleted'})
DeleteFolderWrite ==
    \E i \in TaskIds :
        /\ At(i, "deleteFolder", "write")
        /\ LET r == FolderRepoUpdate(DB, tasks[i].id, [status |-> "deleted"])
           IN  Complete(i, r.db, r.err)

\* createFile({name, folderId}) is called from a task with no call in
\* flight.
CreateFileBegin ==
    \E i \in TaskIds \ DOMAIN tasks :
    \E name \in {NameA}, folderId \in DOMAIN folders \cup {Null} :
        Suspend(i, Task("createFile", Null, folderId, name, FALSE,
                        IF folderId # Null THEN "target" ELSE "write", Null))

\* validateTargetFolder: folderRepo.findById(input.folderId)
CreateFileTarget ==
    \E i \in TaskIds :
        /\ At(i, "createFile", "target")
        /\ IF ~FolderFound(DB, tasks[i].to) THEN Complete(i, DB, "parentNotFound")
           ELSE Suspend(i, [tasks[i] EXCEPT !.pc = "write"])

\* fileRepo.create(input)
CreateFileWrite ==
    \E i \in TaskIds :
        /\ At(i, "createFile", "write")
        /\ LET t == tasks[i]
               r == FileRepoCreate(DB, [name |-> t.name, folderId |-> t.to,
                                        tagIds |-> <<>>])
           IN  /\ r.err = "ok" => Cardinality(DOMAIN files) < MaxFiles
               /\ Complete(i, r.db, r.err)

NextRace ==
    \/ DeleteFolderBegin
    \/ DeleteFolderFind
    \/ DeleteFolderCheck
    \/ DeleteFolderWrite
    \/ CreateFileBegin
    \/ CreateFileTarget
    \/ CreateFileWrite
    \/ MoveFolder

\* deleteFolder and createFile calls of up to MaxTasks tasks interleaved at
\* their awaits, with moveFolder calls running between their steps, on two
\* root folders.
SpecRace == InitFiles /\ [][NextRace]_vars

\* The non-deleted files and subfolders of store d whose parent is folder f.
LiveChildren(d, f) ==
    {x \in DOMAIN d.files :
        d.files[x].status # "deleted" /\ d.files[x].folderId = f}
        \cup {g \in DOMAIN d.folders :
                 d.folders[g].status # "deleted" /\ d.folders[g].parentId = f}

\* C29: a deleteFolder(F, force=false) that succeeds leaves no non-deleted
\* file or subfolder whose parent is F, even when a createFile, createFolder,
\* moveFile or moveFolder into F from another task runs between the
\* emptiness check and the status write.
C29_DeleteLeavesNoLiveChild ==
    [][(last'.op = "deleteFolder" /\ ~last'.flag /\ last'.err = "ok"
            /\ last' # last)
          => LiveChildren(DB', last'.id) = {}]_vars

(***************************************************************************)
(* The recursion of buildTagTreeNode.                                      *)
(***************************************************************************)
\* buildTagTreeNode(t) called while the calls for the tags of onPath are
\* waiting for it: the recursion never returns when it comes to a tag whose
\* call is already waiting, since that call asks for the same children
\* again.
RECURSIVE BuildDiverges(_, _, _)
BuildDiverges(d, t, onPath) ==
    \/ t \in onPath
    \/ \E c \in TagFindByParentId(d, t) : BuildDiverges(d, c, onPath \cup {t})

\* getTagTree(): [err, tree]
GetTagTreeOp(d) ==
    IF \E t \in TagFindAllByParent(d, Null) : BuildDiverges(d, t, {})
    THEN [err |-> "diverges", tree |-> {}]
    ELSE [err |-> "ok", tree |-> GetTagTree(d)]

ReadTagTree ==
    LET r == GetTagTreeOp(DB)
    IN  /\ SetDB(DB)
        /\ last' = CallWithPre("getTagTree", Null, Null, <<>>, FALSE, r.err,
                               [tree |-> r.tree])

NextTagTree ==
    \/ CreateChildTag({NameA, NameB})
    \/ UpdateTagParent
    \/ CreateHierarchy
    \/ RepoDeleteTag
    \/ ReadTagTree

\* Tags created under, and moved under, other tags and deleted, and the tag
\* tree read.
SpecTagTree == InitHierarchy /\ [][NextTagTree]_vars

\* C30: getTagTree terminates and returns a finite tree in every store
\* state reachable through tag create with parentId, update with parentId,
\* createHierarchy and delete.
C30_TagTreeTerminates ==
    last.op = "getTagTree" => last.err = "ok"

====
